---- MODULE Spec2Model ----
(***************************************************************************)
(* A model of the FCAT data tracker: the source adapters of src/sources,   *)
(* their dispatcher fetch_data, the st.cache_data memoization of the ECB   *)
(* and IMF adapters, the local-file parser of src/sources/local.py, the    *)
(* "Run Validation" handler of src/app.py and the wide-to-long normalizer  *)
(* and the completeness scorecard of src/core/ui.py.                       *)
(*                                                                         *)
(* Python values are tagged records [t, v]: t is the Python type and v the *)
(* content.  A dict is an ordered sequence of <<key, value>> pairs (Python *)
(* dicts keep insertion order), a list is a sequence, a str whose          *)
(* characters matter (identifiers, column names) is a sequence of          *)
(* one-character strings.  A DataFrame an adapter builds is                *)
(* [columns, rows] with each row a function from column name to cell; a    *)
(* DataFrame that comes from a file or goes to the page, whose column      *)
(* names the code does not choose, is a Table whose rows hold their cells  *)
(* in column order.                                                        *)
(***************************************************************************)
EXTENDS Integers, Sequences, FiniteSets, TLC

VARIABLES now, cache, calls, call, result, ui

vars == <<now, cache, calls, call, result, ui>>

(***************************************************************************)
(* Python values                                                           *)
(***************************************************************************)
J(t, v) == [t |-> t, v |-> v]

None == J("none", 0)

NaN == J("nan", 0)

NaT == J("nat", 0)

Num(n) == J("num", n)

Str(s) == J("str", s)

Timestamp(d) == J("date", d)

Dict(pairs) == J("dict", pairs)

List(items) == J("list", items)

IsNone(x) == x.t = "none"

\* a str is its sequence of characters; a name or text the code never takes apart
\* is written as one piece
K(text) == <<text>>

\* bool(x) for the values the handlers test
Truthy(x) ==
    CASE x.t = "none" -> FALSE
      [] x.t \in {"dict", "list", "str"} -> Len(x.v) > 0
      [] x.t = "msg" -> x.v # ""
      [] x.t = "num" -> x.v # 0
      [] OTHER -> TRUE

\* pandas isna(cell)
IsNull(c) == c.t \in {"none", "nan", "nat"}

Range(s) == {s[i] : i \in DOMAIN s}

\* ---- dict access ----
Keys(d) == [i \in DOMAIN d.v |-> d.v[i][1]]

HasKey(d, k) == d.t = "dict" /\ \E i \in DOMAIN d.v : d.v[i][1] = k

Get(d, k) == d.v[CHOOSE i \in DOMAIN d.v : d.v[i][1] = k][2]

\* d.get(k, default)
GetOr(d, k, default) == IF HasKey(d, k) THEN Get(d, k) ELSE default

(***************************************************************************)
(* Character strings: "http" is <<"h","t","t","p">>                        *)
(***************************************************************************)
StartsWith(s, p) == Len(s) >= Len(p) /\ SubSeq(s, 1, Len(p)) = p

\* p in s
Contains(s, p) ==
    \E i \in 0..(Len(s) - Len(p)) : SubSeq(s, i + 1, i + Len(p)) = p

\* s.split(c, 1): the parts before and after the first c (c occurs in s)
SplitFirst(s, c) ==
    LET i == CHOOSE k \in DOMAIN s : s[k] = c /\ \A m \in 1..(k - 1) : s[m] # c
    IN  <<SubSeq(s, 1, i - 1), SubSeq(s, i + 1, Len(s))>>

http == <<"h", "t", "t", "p">>

https_prefix == <<"h", "t", "t", "p", "s", ":", "/", "/">>

http_prefix == <<"h", "t", "t", "p", ":", "/", "/">>

(***************************************************************************)
(* Exceptions: an evaluation either yields a value or raises               *)
(***************************************************************************)
Ok(v) == [exc |-> "", val |-> v]

Raise(e) == [exc |-> e, val |-> None]

Raised(o) == o.exc # ""

\* x = E followed by the statements rest(x): an exception of E ends them
Bind(r, rest(_)) == IF Raised(r) THEN Raise(r.exc) ELSE rest(r.val)

\* the results of a loop's iterations, or the first exception one of them raised
All(rs) ==
    IF \E i \in DOMAIN rs : Raised(rs[i])
    THEN LET first == CHOOSE i \in DOMAIN rs : Raised(rs[i]) /\ \A j \in 1..(i - 1) : ~Raised(rs[j])
         IN  Raise(rs[first].exc)
    ELSE Ok([i \in DOMAIN rs |-> rs[i].val])

\* str(e): the text of an exception; an HTTPError's text starts with the status
Msg(text, status) == [t |-> "msg", v |-> text, status |-> status]

StrE(e) == Msg(e, 0)

(***************************************************************************)
(* What an adapter hands back: the (df, raw_json, error) tuple, the        *)
(* exception that left the function (if any), and the calls it made to the *)
(* HTTP client                                                             *)
(***************************************************************************)
Return(df, raw, error) ==
    [exc |-> "", table |-> df, raw |-> raw, error |-> error, reqs |-> <<>>]

Propagate(e) ==
    [exc |-> e, table |-> None, raw |-> None, error |-> None, reqs |-> <<>>]

\* x = E followed by the statements rest(x) of a function: an exception of E
\* leaves the function
Then(r, rest(_)) == IF Raised(r) THEN Propagate(r.exc) ELSE rest(r.val)

\* a statement that raises e unless ok holds, followed by the statements o
Check(ok, e, o) == IF ok THEN o ELSE Propagate(e)

\* the outcome o of the code that ran after the client calls rq were made
After(rq, o) == [o EXCEPT !.reqs = rq \o @]

\* try: ... except Exception as e: return handler(e)
Except(o, handler(_)) == IF o.exc # "" THEN After(o.reqs, handler(o.exc)) ELSE o

\* try: ... except (KeyError, IndexError): return r
ExceptOnly(o, types, r) == IF o.exc \in types THEN After(o.reqs, r) ELSE o

(***************************************************************************)
(* The HTTP client.  An upstream behaviour resp is                         *)
(*   [fails, status, ctype, body]: the transport raises, or a response     *)
(* with a status, a Content-Type and a body comes back.  A body is a JSON  *)
(* value, or text that json() cannot decode.                               *)
(***************************************************************************)
NotJson == J("text", None)

ValidUrl(url) == StartsWith(url, http_prefix) \/ StartsWith(url, https_prefix)

Request(method, url) == [method |-> method, url |-> url]

\* requests.get / requests.post: MissingSchema for a url with no scheme, the
\* transport's exception, or the response
Send(url, resp) ==
    IF ~ValidUrl(url) THEN Raise("MissingSchema")
    ELSE IF resp.fails THEN Raise("ConnectionError")
    ELSE Ok(resp)

\* r.json()
Json(resp) == IF resp.body.t = "text" THEN Raise("JSONDecodeError") ELSE Ok(resp.body)

(***************************************************************************)
(* Reading numbers and dates out of strings                                *)
(***************************************************************************)
DigitVal ==
    ("0" :> 0 @@ "1" :> 1 @@ "2" :> 2 @@ "3" :> 3 @@ "4" :> 4 @@ "5" :> 5
       @@ "6" :> 6 @@ "7" :> 7 @@ "8" :> 8 @@ "9" :> 9)

IsDigits(s) == Len(s) > 0 /\ \A i \in DOMAIN s : s[i] \in DOMAIN DigitVal

RECURSIVE DigitsVal(_)
DigitsVal(s) ==
    IF s = <<>> THEN 0 ELSE 10 * DigitsVal(SubSeq(s, 1, Len(s) - 1)) + DigitVal[s[Len(s)]]

\* the decimal literals [-]d+ and [-]d+.d, read in tenths
IsDecimal(s) ==
    LET u == IF Len(s) > 0 /\ s[1] = "-" THEN Tail(s) ELSE s
    IN  \/ IsDigits(u)
        \/ /\ Len(u) >= 3
           /\ u[Len(u) - 1] = "."
           /\ IsDigits(SubSeq(u, 1, Len(u) - 2))
           /\ IsDigits(<<u[Len(u)]>>)

DecimalVal(s) ==
    LET neg == s[1] = "-"
        u == IF neg THEN Tail(s) ELSE s
        tenths == IF IsDigits(u) THEN 10 * DigitsVal(u)
                  ELSE 10 * DigitsVal(SubSeq(u, 1, Len(u) - 2)) + DigitVal[u[Len(u)]]
    IN  IF neg THEN 0 - tenths ELSE tenths

IsNanLiteral(s) == s \in {<<"N", "a", "N">>, <<"n", "a", "n">>}

DaysIn(y, m) ==
    CASE m \in {4, 6, 9, 11} -> 30
      [] m = 2 -> IF y % 4 = 0 /\ (y % 100 # 0 \/ y % 400 = 0) THEN 29 ELSE 28
      [] OTHER -> 31

Ymd(y, m, d) == y * 10000 + m * 100 + d

\* the date a string stands for, as yyyymmdd, or 0: YYYY, YYYY-MM, YYYY-MM-DD and
\* the quarter form YYYY-Qn are the forms the payloads and column names use
DateOf(s) ==
    LET y == DigitsVal(SubSeq(s, 1, 4))
        m == DigitsVal(SubSeq(s, 6, 7))
        d == DigitsVal(SubSeq(s, 9, 10))
        q == DigitsVal(SubSeq(s, 7, 7))
    IN  CASE Len(s) = 4 /\ IsDigits(s) -> Ymd(y, 1, 1)
          [] Len(s) = 7 /\ IsDigits(SubSeq(s, 1, 4)) /\ s[5] = "-" /\ IsDigits(SubSeq(s, 6, 7)) ->
                IF m \in 1..12 THEN Ymd(y, m, 1) ELSE 0
          [] Len(s) = 7 /\ IsDigits(SubSeq(s, 1, 4)) /\ s[5] = "-" /\ s[6] = "Q"
               /\ IsDigits(SubSeq(s, 7, 7)) ->
                IF q \in 1..4 THEN Ymd(y, 3 * q - 2, 1) ELSE 0
          [] Len(s) = 10 /\ IsDigits(SubSeq(s, 1, 4)) /\ s[5] = "-" /\ IsDigits(SubSeq(s, 6, 7))
               /\ s[8] = "-" /\ IsDigits(SubSeq(s, 9, 10)) ->
                IF m \in 1..12 /\ d >= 1 /\ d <= DaysIn(y, m) THEN Ymd(y, m, d) ELSE 0
          [] OTHER -> 0

(***************************************************************************)
(* pandas                                                                  *)
(***************************************************************************)
DataFrame(columns, rows) == J("df", [columns |-> columns, rows |-> rows])

\* pd.to_numeric of one cell: Ok(cell) or the exception of errors='raise'
to_numeric_cell(c) ==
    CASE c.t = "num" -> Ok(c)
      [] IsNull(c) -> Ok(NaN)
      [] c.t = "str" /\ IsDecimal(c.v) -> Ok(Num(DecimalVal(c.v)))
      [] c.t = "str" /\ IsNanLiteral(c.v) -> Ok(NaN)
      [] OTHER -> Raise("ValueError")

\* the Timestamp of a string that DateOf read as d, ValueError when it read none
Parsed(d) == IF d # 0 THEN Ok(Timestamp(d)) ELSE Raise("ValueError")

\* pd.to_datetime of one cell
to_datetime_cell(c) ==
    CASE c.t = "date" -> Ok(c)
      [] IsNull(c) -> Ok(NaT)
      [] c.t = "str" -> Parsed(DateOf(c.v))
      [] OTHER -> Raise("ValueError")

\* float(x)
float(c) ==
    CASE c.t = "num" -> Ok(c)
      [] c.t = "str" /\ IsDecimal(c.v) -> Ok(Num(DecimalVal(c.v)))
      [] c.t = "str" /\ IsNanLiteral(c.v) -> Ok(NaN)
      [] c.t = "str" -> Raise("ValueError")
      [] OTHER -> Raise("TypeError")

HasColumn(df, col) == col \in Range(df.v.columns)

\* df[col] = convert(df[col]) with errors='coerce': a failing cell becomes null
Coerce(df, col, convert(_), null) ==
    DataFrame(df.v.columns,
              [i \in DOMAIN df.v.rows |->
                 [df.v.rows[i] EXCEPT ![col] =
                    IF Raised(convert(@)) THEN null ELSE convert(@).val]])

\* df[col] = convert(df[col]) with errors='raise'
Convert(df, col, convert(_)) ==
    IF \E i \in DOMAIN df.v.rows : Raised(convert(df.v.rows[i][col]))
    THEN Raise("ValueError")
    ELSE Ok(DataFrame(df.v.columns,
                      [i \in DOMAIN df.v.rows |->
                         [df.v.rows[i] EXCEPT ![col] = convert(@).val]]))

\* df.dropna(subset=cols)
dropna_subset(df, cols) ==
    LET complete(row) == \A c \in cols : ~IsNull(row[c])
    IN  DataFrame(df.v.columns, SelectSeq(df.v.rows, complete))

\* df.dropna(): drops a row with a null in any column
dropna(df) == dropna_subset(df, Range(df.v.columns))

\* the elements of s, each kept at its first occurrence
RECURSIVE Unique(_)
Unique(s) ==
    IF s = <<>> THEN <<>>
    ELSE LET front == Unique(SubSeq(s, 1, Len(s) - 1))
         IN  IF s[Len(s)] \in Range(front) THEN front ELSE Append(front, s[Len(s)])

RECURSIVE Flatten(_)
Flatten(ss) == IF ss = <<>> THEN <<>> ELSE Head(ss) \o Flatten(Tail(ss))

\* a JSON scalar as a DataFrame cell
Cell(j) == IF j.t = "none" THEN None ELSE j

\* pd.DataFrame(data) for a list of dicts: the columns are the keys in order of
\* first appearance, a key a dict lacks is NaN in its row
DataFrameOfRecords(data) ==
    IF data.t = "none" THEN Ok(DataFrame(<<>>, <<>>))
    ELSE IF data.t # "list" THEN Raise("ValueError")
    ELSE IF Len(data.v) > 0 /\ \A i \in DOMAIN data.v : data.v[i].t \in {"str", "num", "none"}
         THEN Ok(DataFrame(<<K("0")>>, [i \in DOMAIN data.v |-> [c \in {K("0")} |-> Cell(data.v[i])]]))
    ELSE IF \E i \in DOMAIN data.v : data.v[i].t # "dict" THEN Raise("ValueError")
    ELSE LET columns == Unique(Flatten([i \in DOMAIN data.v |-> Keys(data.v[i])]))
         IN  Ok(DataFrame(columns,
                          [i \in DOMAIN data.v |->
                             [c \in Range(columns) |->
                                IF HasKey(data.v[i], c) THEN Cell(Get(data.v[i], c)) ELSE NaN]]))

\* pd.DataFrame(data, columns=columns) for a list of equally long lists
DataFrameOfLists(data, columns) ==
    IF data.t # "list" THEN Raise("ValueError")
    ELSE IF \E i \in DOMAIN data.v : data.v[i].t # "list" \/ Len(data.v[i].v) # Len(columns)
         THEN Raise("ValueError")
    ELSE Ok(DataFrame(columns,
                      [i \in DOMAIN data.v |->
                         [c \in Range(columns) |->
                            Cell(data.v[i].v[CHOOSE k \in DOMAIN columns : columns[k] = c])]]))

\* obj[key] on a JSON value
Subscript(obj, key) ==
    IF obj.t # "dict" THEN Raise("TypeError")
    ELSE IF HasKey(obj, key) THEN Ok(Get(obj, key))
    ELSE Raise("KeyError")

\* key in obj
In(key, obj) ==
    CASE obj.t = "dict" -> Ok(HasKey(obj, key))
      [] obj.t = "list" -> Ok(\E i \in DOMAIN obj.v : obj.v[i].t = "str" /\ obj.v[i].v = key)
      [] obj.t = "str" -> Ok(Contains(obj.v, key))
      [] OTHER -> Raise("TypeError")

\* obj.get(key, default)
DictGet(obj, key, default) ==
    IF obj.t # "dict" THEN Raise("AttributeError") ELSE Ok(GetOr(obj, key, default))

\* the order of two strings: by the first character that differs
CharRank(ch) ==
    CHOOSE i \in 1..26 :
        <<"A", "B", "C", "D", "E", "F", "G", "H", "I", "J", "K", "L", "M", "N", "O", "P",
          "Q", "R", "S", "T", "U", "V", "W", "X", "Y", "Z">>[i] = ch

RECURSIVE StrLess(_, _)
StrLess(a, b) ==
    CASE b = <<>> -> FALSE
      [] a = <<>> -> TRUE
      [] Head(a) = Head(b) -> StrLess(Tail(a), Tail(b))
      [] OTHER -> CharRank(Head(a)) < CharRank(Head(b))

\* obj[0] on a JSON value
First(obj) ==
    IF obj.t = "dict" THEN Raise("KeyError")
    ELSE IF obj.t # "list" THEN Raise("TypeError")
    ELSE IF Len(obj.v) = 0 THEN Raise("IndexError")
    ELSE Ok(obj.v[1])

\* df.sort_values(by): a stable sort, ascending in lessThan, nulls last
SortRows(rows, lessThan(_, _)) ==
    LET before(i, j) == lessThan(rows[i], rows[j]) \/ (~lessThan(rows[j], rows[i]) /\ i < j)
        rank(i) == 1 + Cardinality({j \in DOMAIN rows : before(j, i)})
    IN  [r \in DOMAIN rows |-> rows[CHOOSE i \in DOMAIN rows : rank(i) = r]]

\* the order of two cells of one column: numbers and dates by value, nulls last
CellLess(a, b) ==
    CASE IsNull(a) -> FALSE
      [] IsNull(b) -> TRUE
      [] OTHER -> a.v < b.v

sort_values(df, col) ==
    LET less(r1, r2) == CellLess(r1[col], r2[col])
    IN  DataFrame(df.v.columns, SortRows(df.v.rows, less))

\* df[[c1, c2, ...]]
Project(df, columns) ==
    DataFrame(columns, [i \in DOMAIN df.v.rows |-> [c \in Range(columns) |-> df.v.rows[i][c]]])

(***************************************************************************)
(* Names the code spells out                                               *)
(***************************************************************************)
c_date == <<"d", "a", "t", "e">>

c_value == <<"v", "a", "l", "u", "e">>

c_year == <<"y", "e", "a", "r">>

c_period == <<"p", "e", "r", "i", "o", "d">>

c_source == <<"s", "o", "u", "r", "c", "e">>

c_timestamp == <<"t", "i", "m", "e", "s", "t", "a", "m", "p">>

(***************************************************************************)
(* src/sources/fred.py                                                     *)
(***************************************************************************)
\* f"{x}" of a str or of None
Format(x) == IF IsNone(x) THEN K("None") ELSE x.v

fred_url(dataset_id, api_key) ==
    https_prefix \o K("api.stlouisfed.org/fred/series/observations?series_id=")
        \o dataset_id \o K("&api_key=") \o Format(api_key) \o K("&file_type=json")

\* lines 13-16: the statements under `if r.status_code == 200`
fred_parse(r) ==
    Then(Json(r), LAMBDA json :
    Then(Subscript(json, K("observations")), LAMBDA obs :
    Then(DataFrameOfRecords(obs), LAMBDA df :
    Check(HasColumn(df, c_date), "KeyError",
    Then(Convert(df, c_date, to_datetime_cell), LAMBDA df1 :
    Check(HasColumn(df, c_value), "KeyError",
    Return(dropna(Coerce(df1, c_value, to_numeric_cell, NaN)), json, None)))))))

FailedWith(e) == Return(None, None, StrE(e))

\* get_fred_data without the check of lines 5-6
get_fred_data_unchecked(dataset_id, api_key, resp) ==
    LET url == fred_url(dataset_id, api_key)
        r == Send(url, resp)
        try == After(<<Request("GET", url)>>,
                     CASE Raised(r) -> Propagate(r.exc)
                       [] r.val.status = 200 -> fred_parse(r.val)
                       [] OTHER -> Return(None, None, Msg("Status", r.val.status)))
    IN  Except(try, FailedWith)

get_fred_data(dataset_id, api_key, resp) ==
    IF ~Truthy(api_key) THEN Return(None, None, Msg("API Key Required", 0))
    ELSE LET url == fred_url(dataset_id, api_key)
             r == Send(url, resp)
             try == After(<<Request("GET", url)>>,
                          CASE Raised(r) -> Propagate(r.exc)
                            [] r.val.status = 200 -> fred_parse(r.val)
                            [] OTHER -> Return(None, None, Msg("Status", r.val.status)))
         IN  Except(try, FailedWith)

(***************************************************************************)
(* src/sources/bls.py                                                      *)
(***************************************************************************)
bls_url == https_prefix \o K("api.bls.gov/publicAPI/v2/timeseries/data/")

REQUEST_SUCCEEDED == Str(K("REQUEST_SUCCEEDED"))

\* df[df['period'].str.contains("M")]
bls_monthly(df) ==
    LET hasM(row) == Contains(row[c_period].v, <<"M">>)
    IN  DataFrame(df.v.columns, SelectSeq(df.v.rows, hasM))

\* df['year'] + "-" + df['period'].str.replace("M", "") + "-01"
bls_date_str(row) ==
    LET notM(ch) == ch # "M"
    IN  Str(row[c_year].v \o <<"-">> \o SelectSeq(row[c_period].v, notM) \o <<"-", "0", "1">>)

WithColumn(df, col, cellOf(_)) ==
    DataFrame(IF HasColumn(df, col) THEN df.v.columns ELSE Append(df.v.columns, col),
              [i \in DOMAIN df.v.rows |->
                 [c \in Range(df.v.columns) \cup {col} |->
                    IF c = col THEN cellOf(df.v.rows[i]) ELSE df.v.rows[i][c]]])

AllStr(df, col) == \A i \in DOMAIN df.v.rows : df.v.rows[i][col].t = "str"

\* line 26: raw_json['Results']['series'][0]['data']
bls_series_data(raw_json) ==
    Bind(Subscript(raw_json, K("Results")), LAMBDA results :
    Bind(Subscript(results, K("series")), LAMBDA series :
    Bind(First(series), LAMBDA series0 :
    Subscript(series0, K("data")))))

\* lines 26-31: the statements of the inner try
bls_parse(raw_json) ==
    Then(bls_series_data(raw_json), LAMBDA series_data :
    Then(DataFrameOfRecords(series_data), LAMBDA df :
    Check(HasColumn(df, c_period), "KeyError",
    Check(AllStr(df, c_period), "ValueError",
    Check(HasColumn(df, c_year), "KeyError",
    Check(AllStr(bls_monthly(df), c_year), "TypeError",
    Then(Convert(WithColumn(bls_monthly(df), c_date, bls_date_str), c_date, to_datetime_cell),
         LAMBDA df1 :
    Check(HasColumn(df, c_value), "KeyError",
    Return(Project(sort_values(Coerce(df1, c_value, to_numeric_cell, NaN), c_date),
                   <<c_date, c_value>>),
           raw_json, None)))))))))

\* lines 21-33: the statements under `if r.status_code == 200`
bls_ok(r) ==
    Then(Json(r), LAMBDA raw_json :
    Then(Subscript(raw_json, K("status")), LAMBDA status :
    IF status # REQUEST_SUCCEEDED THEN Return(None, raw_json, Msg("BLS Error", 0))
    ELSE ExceptOnly(bls_parse(raw_json), {"KeyError", "IndexError"},
                    Return(None, raw_json, Msg("No data found.", 0)))))

\* get_bls_data with requests.get in place of the requests.post of line 20
get_bls_data_by_get(dataset_id, api_key, resp) ==
    LET r == Send(bls_url, resp)
        try == After(<<Request("GET", bls_url)>>,
                     CASE Raised(r) -> Propagate(r.exc)
                       [] r.val.status = 200 -> bls_ok(r.val)
                       [] OTHER -> Return(None, None, Msg("Status", r.val.status)))
    IN  Except(try, FailedWith)

get_bls_data(dataset_id, api_key, resp) ==
    LET r == Send(bls_url, resp)
        try == After(<<Request("POST", bls_url)>>,
                     CASE Raised(r) -> Propagate(r.exc)
                       [] r.val.status = 200 -> bls_ok(r.val)
                       [] OTHER -> Return(None, None, Msg("Status", r.val.status)))
    IN  Except(try, FailedWith)

(***************************************************************************)
(* src/sources/coingecko.py                                                *)
(***************************************************************************)
coingecko_url(coin_id) ==
    https_prefix \o K("api.coingecko.com/api/v3/coins/") \o coin_id
        \o K("/market_chart?vs_currency=usd&days=30")

MsPerDay == 1000 * 86400

\* pd.to_datetime(x, unit='ms'): whole days since 1970-01-01, within January 1970
from_ms_cell(c) ==
    CASE IsNull(c) -> Ok(NaT)
      [] c.t = "num" /\ c.v % MsPerDay = 0 /\ c.v \div MsPerDay \in 0..30 ->
            Ok(Timestamp(Ymd(1970, 1, 1 + c.v \div MsPerDay)))
      [] OTHER -> Raise("ValueError")

\* lines 9-12
coingecko_parse(r) ==
    Then(Json(r), LAMBDA data :
    Then(Subscript(data, K("prices")), LAMBDA prices :
    Then(DataFrameOfLists(prices, <<c_timestamp, c_value>>), LAMBDA df :
    Then(Convert(WithColumn(df, c_date, LAMBDA row : row[c_timestamp]), c_date, from_ms_cell),
         LAMBDA df1 :
    Return(df1, data, None)))))

get_crypto_data(coin_id, api_key, resp) ==
    LET url == coingecko_url(coin_id)
        r == Send(url, resp)
        try == After(<<Request("GET", url)>>,
                     CASE Raised(r) -> Propagate(r.exc)
                       [] r.val.status = 200 -> coingecko_parse(r.val)
                       [] OTHER -> Return(None, None, Msg("Status", r.val.status)))
    IN  Except(try, FailedWith)

(***************************************************************************)
(* src/sources/generic.py                                                  *)
(***************************************************************************)
generic_ok(r) ==
    LET json == Json(r)
    IN  IF Raised(json) THEN Propagate(json.exc) ELSE Return(None, json.val, None)

\* get_generic_json without the try of lines 9 and 16-17
get_generic_json_uncaught(dataset_id, api_key, resp) ==
    LET r == Send(dataset_id, resp)
    IN  After(<<Request("GET", dataset_id)>>,
              CASE Raised(r) -> Propagate(r.exc)
                [] r.val.status = 200 -> generic_ok(r.val)
                [] r.val.status = 403 -> Return(None, None, Msg("Access Denied (403)", 403))
                [] OTHER -> Return(None, None, Msg("Status", r.val.status)))

get_generic_json(dataset_id, api_key, resp) ==
    LET r == Send(dataset_id, resp)
        try == After(<<Request("GET", dataset_id)>>,
                     CASE Raised(r) -> Propagate(r.exc)
                       [] r.val.status = 200 -> generic_ok(r.val)
                       [] r.val.status = 403 -> Return(None, None, Msg("Access Denied (403)", 403))
                       [] OTHER -> Return(None, None, Msg("Status", r.val.status)))
    IN  Except(try, FailedWith)

(***************************************************************************)
(* src/sources/census.py                                                   *)
(***************************************************************************)
\* response.raise_for_status()
raise_for_status(r) == IF r.status >= 400 /\ r.status < 600 THEN Raise("HTTPError") ELSE Ok(r)

\* pd.to_numeric(df[col], errors='ignore'): the column converted, or left as it is
\* when one cell does not convert
to_numeric_ignore(df, col) ==
    LET converted == Convert(df, col, to_numeric_cell)
    IN  IF Raised(converted) THEN df ELSE converted.val

RECURSIVE to_numeric_columns(_, _)
to_numeric_columns(df, columns) ==
    IF columns = <<>> THEN df
    ELSE to_numeric_columns(to_numeric_ignore(df, Head(columns)), Tail(columns))

\* lines 21-40
census_parse(data) ==
    IF data.t = "list" /\ Len(data.v) > 0 /\ data.v[1].t = "list"
    THEN LET headers == [i \in DOMAIN data.v[1].v |-> data.v[1].v[i].v]
             rows == List(Tail(data.v))
             df == DataFrameOfLists(rows, headers)
         IN  IF Raised(df) THEN Propagate(df.exc)
             ELSE Return(to_numeric_columns(df.val, headers), data, None)
    ELSE IF data.t = "list"
    THEN LET df == DataFrameOfRecords(data)
         IN  IF Raised(df) THEN Propagate(df.exc) ELSE Return(df.val, data, None)
    ELSE Return(None, data, Msg("JSON format not recognized", 0))

get_census_data(url, api_key, resp) ==
    LET url1 == IF ~StartsWith(url, http) THEN https_prefix \o url ELSE url
        response == Send(url1, resp)
        checked == raise_for_status(response.val)
        data == Json(response.val)
        try == After(<<Request("GET", url1)>>,
                     CASE Raised(response) -> Propagate(response.exc)
                       [] Raised(checked) -> Propagate(checked.exc)
                       [] Raised(data) -> Propagate(data.exc)
                       [] OTHER -> census_parse(data.val))
        failed(e) == Return(None, None,
                            Msg("Census Connection Error",
                                IF e = "HTTPError" THEN response.val.status ELSE 0))
    IN  Except(try, failed)

(***************************************************************************)
(* src/sources/imf.py                                                      *)
(***************************************************************************)
\* isinstance(x, dict) and x = [x]
AsList(x) == IF x.t = "dict" THEN List(<<x>>) ELSE x

\* what a for loop runs over: the items of a list, the characters of a str
Iterate(x) ==
    CASE x.t = "list" -> Ok(x.v)
      [] x.t = "dict" -> Ok([i \in DOMAIN x.v |-> Str(x.v[i][1])])
      [] x.t = "str" -> Ok([i \in DOMAIN x.v |-> Str(<<x.v[i]>>)])
      [] OTHER -> Raise("TypeError")

\* lines 50-54: the row of one observation o of a series with @REF_AREA country_code
sdmx_row(country_code, o) ==
    Bind(DictGet(o, K("@TIME_PERIOD"), None), LAMBDA period :
    Bind(to_datetime_cell(period), LAMBDA date :
    Bind(DictGet(o, K("@OBS_VALUE"), None), LAMBDA obs_value :
    Bind(float(obs_value), LAMBDA value :
    Ok((c_source :> Cell(country_code)) @@ (c_date :> date) @@ (c_value :> value))))))

\* lines 44-54: the rows of one series s
sdmx_series_rows(s) ==
    Bind(DictGet(s, K("@REF_AREA"), Str(K("Unknown"))), LAMBDA country_code :
    Bind(DictGet(s, K("Obs"), List(<<>>)), LAMBDA obs :
    Bind(Iterate(AsList(obs)), LAMBDA items :
    All([i \in DOMAIN items |-> sdmx_row(country_code, items[i])]))))

\* the order of sort_values(['source', 'date']) on rows without nulls
SourceDateLess(r1, r2) ==
    \/ StrLess(r1[c_source].v, r2[c_source].v)
    \/ r1[c_source].v = r2[c_source].v /\ r1[c_date].v < r2[c_date].v

\* lines 56-57 and 80-81: pd.DataFrame(data_list), dropna, sort_values
imf_frame(data_list) ==
    IF data_list = <<>> THEN Raise("KeyError")
    ELSE LET columns == <<c_source, c_date, c_value>>
             df == dropna(DataFrame(columns, data_list))
         IN  Ok(DataFrame(columns, SortRows(df.v.rows, SourceDateLess)))

\* lines 36-57: the statements of the try of CASE A
sdmx_parse(raw_json) ==
    Then(Subscript(raw_json, K("CompactData")), LAMBDA compact :
    Then(Subscript(compact, K("DataSet")), LAMBDA dataset :
    Then(Subscript(dataset, K("Series")), LAMBDA series_data :
    Then(Iterate(AsList(series_data)), LAMBDA series :
    Then(All([i \in DOMAIN series |-> sdmx_series_rows(series[i])]), LAMBDA rows :
    Then(imf_frame(Flatten(rows)), LAMBDA df :
    Return(df, raw_json, None)))))))

\* line 78, `except: continue`: the rows an iteration appends
Skipping(row) == IF Raised(row) THEN <<>> ELSE <<row.val>>

\* lines 72-78: one (year, val) of a country; `except: continue` skips the row
datamapper_rows(country_code, year, val) ==
    Skipping(Bind(to_datetime_cell(Str(year \o <<"-", "0", "1", "-", "0", "1">>)), LAMBDA date :
             Bind(float(val), LAMBDA value :
             Ok((c_source :> Str(country_code)) @@ (c_date :> date) @@ (c_value :> value)))))

\* lines 70-78: the rows of one country
datamapper_country_rows(country_code, year_dict) ==
    IF year_dict.t # "dict" THEN Raise("AttributeError")
    ELSE Ok(Flatten([i \in DOMAIN year_dict.v |->
                       datamapper_rows(country_code, year_dict.v[i][1], year_dict.v[i][2])]))

\* list(values.keys())[0]
FirstKey(d) ==
    IF d.t # "dict" THEN Raise("AttributeError")
    ELSE IF d.v = <<>> THEN Raise("IndexError")
    ELSE Ok(d.v[1][1])

\* lines 65-81: the statements of the try of CASE B
datamapper_parse(raw_json) ==
    Then(Subscript(raw_json, K("values")), LAMBDA values :
    Then(FirstKey(values), LAMBDA indicator_key :
    Then(Subscript(values, indicator_key), LAMBDA country_data :
    Check(country_data.t = "dict", "AttributeError",
    Then(All([i \in DOMAIN country_data.v |->
                datamapper_country_rows(country_data.v[i][1], country_data.v[i][2])]),
         LAMBDA rows :
    Then(imf_frame(Flatten(rows)), LAMBDA df :
    Return(df, raw_json, None)))))))

\* lines 29-88: the statements under `if r.status_code == 200`
imf_ok(r) ==
    Then(Json(r), LAMBDA raw_json :
    Then(In(K("CompactData"), raw_json), LAMBDA isCompact :
    IF isCompact
    THEN Except(sdmx_parse(raw_json),
                LAMBDA e : Return(None, raw_json, Msg("SDMX Parsing Failed", 0)))
    ELSE IF In(K("values"), raw_json).val
    THEN Except(datamapper_parse(raw_json),
                LAMBDA e : Return(None, raw_json, Msg("DataMapper Parsing Failed", 0)))
    ELSE Return(None, raw_json, Msg("Unknown JSON Structure", 0))))

\* the function st.cache_data wraps
imf_uncached(dataset_url, api_key, resp) ==
    IF ~StartsWith(dataset_url, http)
    THEN Return(None, None, Msg("Error: Please paste the full API URL", 0))
    ELSE LET r == Send(dataset_url, resp)
             try == After(<<Request("GET", dataset_url)>>,
                          CASE Raised(r) -> Propagate(r.exc)
                            [] r.val.status = 200 -> imf_ok(r.val)
                            [] r.val.status = 429 ->
                                  Return(None, None, Msg("429 Rate Limit: Too many requests.", 429))
                            [] OTHER -> Return(None, None, Msg("Status", r.val.status)))
         IN  Except(try, FailedWith)

(***************************************************************************)
(* src/sources/ecb.py                                                      *)
(***************************************************************************)
\* lines 12-18
ecb_url(dataset_id) ==
    LET parts == SplitFirst(dataset_id, ".")
        resource_path ==
            IF Contains(dataset_id, <<".">>) /\ ~Contains(dataset_id, <<"/">>)
            THEN parts[1] \o <<"/">> \o parts[2]
            ELSE dataset_id
    IN  https_prefix \o K("data-api.ecb.europa.eu/service/data/") \o resource_path

\* int(s) of a str: an optional sign and digits
int(s) ==
    CASE IsDigits(s) -> Ok(DigitsVal(s))
      [] Len(s) > 1 /\ s[1] = "-" /\ IsDigits(Tail(s)) -> Ok(0 - DigitsVal(Tail(s)))
      [] OTHER -> Raise("ValueError")

\* seq[i] for a Python index i: counted from 0, or from the end when negative
At(obj, i) ==
    IF obj.t # "list" THEN Raise("TypeError")
    ELSE IF i >= 0 /\ i + 1 \in DOMAIN obj.v THEN Ok(obj.v[i + 1])
    ELSE IF i < 0 /\ Len(obj.v) + i + 1 \in DOMAIN obj.v THEN Ok(obj.v[Len(obj.v) + i + 1])
    ELSE Raise("IndexError")

\* lines 50-53: the row of one (time_idx, obs_data) of the observations
ecb_row(time_dim, time_idx, obs_data) ==
    Bind(int(time_idx), LAMBDA idx :
    Bind(At(time_dim, idx), LAMBDA entry :
    Bind(Subscript(entry, K("name")), LAMBDA date_str :
    Bind(First(obs_data), LAMBDA val :
    Ok((c_date :> Cell(date_str)) @@ (c_value :> Cell(val)))))))

\* ecb.py line 60: df.dropna().sort_values('date')
ecb_cleanup(df) == sort_values(dropna(df), c_date)

\* lines 46-62: from the time dimension to the returned frame; cleanup is the
\* statement that follows the conversions
ecb_frame(raw_json, observations, cleanup(_)) ==
    Then(Subscript(raw_json, K("structure")), LAMBDA structure :
    Then(Subscript(structure, K("dimensions")), LAMBDA dimensions :
    Then(Subscript(dimensions, K("observation")), LAMBDA observation :
    Then(First(observation), LAMBDA observation0 :
    Then(Subscript(observation0, K("values")), LAMBDA time_dim :
    Check(observations.t = "dict", "AttributeError",
    Then(All([i \in DOMAIN observations.v |->
                ecb_row(time_dim, observations.v[i][1], observations.v[i][2])]),
         LAMBDA data_list :
    Check(data_list # <<>>, "KeyError",
    Then(Convert(Coerce(DataFrame(<<c_date, c_value>>, data_list), c_date, to_datetime_cell, NaT),
                 c_value, to_numeric_cell),
         LAMBDA df :
    Return(cleanup(df), raw_json, None))))))))))

\* lines 33-62: the statements of the inner try
ecb_parse(raw_json, cleanup(_)) ==
    Then(In(K("dataSets"), raw_json), LAMBDA hasSets :
    IF ~hasSets THEN Return(None, raw_json, Msg("Empty dataSets in response", 0)) ELSE
    Then(Subscript(raw_json, K("dataSets")), LAMBDA dataSets :
    IF ~Truthy(dataSets) THEN Return(None, raw_json, Msg("Empty dataSets in response", 0)) ELSE
    Then(First(dataSets), LAMBDA dataset :
    Then(In(K("series"), dataset), LAMBDA hasSeries :
    IF ~hasSeries
    THEN Return(None, raw_json, Msg("Could not locate 'series' in SDMX response", 0)) ELSE
    Then(Subscript(dataset, K("series")), LAMBDA series_dict :
    Then(FirstKey(series_dict), LAMBDA key :
    Then(Subscript(series_dict, key), LAMBDA series :
    Then(Subscript(series, K("observations")), LAMBDA observations :
    ecb_frame(raw_json, observations, cleanup)))))))))

\* lines 30-65: the statements under `if r.status_code == 200`
ecb_ok(r, cleanup(_)) ==
    Then(Json(r), LAMBDA raw_json :
    Except(ecb_parse(raw_json, cleanup),
           LAMBDA parse_e : Return(None, raw_json, Msg("SDMX Parsing Failed", 0))))

\* the function st.cache_data wraps
ecb_uncached(dataset_id, api_key, resp) ==
    LET url == ecb_url(dataset_id)
        r == Send(url, resp)
        try == After(<<Request("GET", url)>>,
                     CASE Raised(r) -> Propagate(r.exc)
                       [] r.val.status = 200 -> ecb_ok(r.val, ecb_cleanup)
                       [] r.val.status = 406 ->
                             Return(None, None, Msg("406 Error: Server rejected headers.", 406))
                       [] OTHER -> Return(None, None, Msg("Status", r.val.status)))
    IN  Except(try, FailedWith)

(***************************************************************************)
(* src/sources/oecd.py                                                     *)
(***************************************************************************)
\* df.rename(columns=mapping): mapping is a sequence of <<old, new>>
rename(df, mapping) ==
    LET new(c) == IF \E i \in DOMAIN mapping : mapping[i][1] = c
                  THEN mapping[CHOOSE i \in DOMAIN mapping : mapping[i][1] = c][2]
                  ELSE c
        old(n) == CHOOSE c \in Range(df.v.columns) : new(c) = n
    IN  DataFrame([i \in DOMAIN df.v.columns |-> new(df.v.columns[i])],
                  [i \in DOMAIN df.v.rows |->
                     [n \in {new(c) : c \in Range(df.v.columns)} |-> df.v.rows[i][old(n)]]])

\* pd.read_csv(StringIO(r.text)): a text body is written as the table it holds
read_csv(body) ==
    IF body.t = "text" /\ body.v.t = "df" THEN Ok(body.v) ELSE Raise("ParserError")

\* lines 41-44
oecd_time_value(df) ==
    IF ~HasColumn(df, K("TIME_PERIOD")) THEN Ok(df)
    ELSE LET renamed == rename(df, << <<K("TIME_PERIOD"), c_date>>, <<K("OBS_VALUE"), c_value>> >>)
         IN  IF ~HasColumn(renamed, c_value) THEN Raise("KeyError")
             ELSE Ok(Coerce(Coerce(renamed, c_date, to_datetime_cell, NaT),
                            c_value, to_numeric_cell, NaN))

\* df[df['Measure'].str.contains('whole counts', na=False)]
oecd_whole_counts(df) ==
    LET whole(row) == row[K("Measure")].t = "str"
                        /\ Contains(row[K("Measure")].v, K("whole counts"))
    IN  DataFrame(df.v.columns, SelectSeq(df.v.rows, whole))

\* lines 47-57
oecd_network(df) ==
    IF HasColumn(df, K("REF_AREA")) /\ HasColumn(df, K("COUNTERPART_AREA"))
    THEN LET renamed ==
                 rename(df, << <<K("REF_AREA"), c_source>>,
                               <<K("COUNTERPART_AREA"), K("target")>>,
                               <<K("Reference area"), K("source_name")>>,
                               <<K("Counterpart area"), K("target_name")>> >>)
         IN  IF HasColumn(renamed, K("Measure")) THEN oecd_whole_counts(renamed) ELSE renamed
    ELSE df

\* lines 36-59: the statements of the try of Case A
oecd_csv(r) ==
    Then(read_csv(r.body), LAMBDA df :
    Then(oecd_time_value(df), LAMBDA df1 :
    Return(oecd_network(df1), None, None)))

raw_text(r) == Dict(<< <<K("raw_text"), Str(K("r.text"))>> >>)

\* lines 31-69: the statements under `if r.status_code == 200`
oecd_ok(r) ==
    LET content_type == r.ctype
        json == Json(r)
        csv_failed(e) == Return(None, raw_text(r), Msg("CSV Parsing Failed", 0))
    IN  CASE Contains(content_type, <<"c", "s", "v">>) -> Except(oecd_csv(r), csv_failed)
          [] Contains(content_type, <<"j", "s", "o", "n">>) ->
                IF Raised(json) THEN Propagate(json.exc)
                ELSE Return(None, json.val, Msg("Connection Successful (JSON Received)", 0))
          [] OTHER -> Return(None, raw_text(r), Msg("Unknown Content-Type", 0))

get_oecd_data(dataset_id, api_key, resp) ==
    LET r == Send(dataset_id, resp)
        try == After(<<Request("GET", dataset_id)>>,
                     CASE Raised(r) -> Propagate(r.exc)
                       [] r.val.status = 200 -> oecd_ok(r.val)
                       [] r.val.status = 403 -> Return(None, None, Msg("403 Forbidden", 403))
                       [] r.val.status = 429 ->
                             Return(None, None, Msg("429 Too Many Requests", 429))
                       [] OTHER -> Return(None, None, Msg("Status", r.val.status)))
    IN  Except(try, FailedWith)

(***************************************************************************)
(* @st.cache_data(ttl=3600) of src/sources/imf.py and src/sources/ecb.py:  *)
(* the wrapper looks the call's arguments up in the function's cache,      *)
(* returns the stored value of an entry younger than ttl, and otherwise    *)
(* runs the function and stores whatever it returns (an exception leaves   *)
(* the cache as it was).  run is the outcome the function would have.      *)
(***************************************************************************)
ttl == 3600

Entry(fn, dataset_id, api_key, at, value) ==
    [fn |-> fn, dataset_id |-> dataset_id, api_key |-> api_key, at |-> at, value |-> value]

Fresh(e, t) == t < e.at + ttl

Hits(store, fn, dataset_id, api_key, t) ==
    {e \in store : e.fn = fn /\ e.dataset_id = dataset_id /\ e.api_key = api_key /\ Fresh(e, t)}

\* the (df, raw_json, error) tuple of an outcome: what the cache keeps
Tuple(o) == [table |-> o.table, raw |-> o.raw, error |-> o.error]

cache_data_result(store, fn, dataset_id, api_key, t, run) ==
    LET hits == Hits(store, fn, dataset_id, api_key, t)
        value == (CHOOSE e \in hits : TRUE).value
    IN  IF hits # {} THEN Return(value.table, value.raw, value.error) ELSE run

cache_data_store(store, fn, dataset_id, api_key, t, run) ==
    IF Hits(store, fn, dataset_id, api_key, t) # {} \/ run.exc # "" THEN store
    ELSE {e \in store :
            e.fn # fn \/ (Fresh(e, t) /\ ~(e.dataset_id = dataset_id /\ e.api_key = api_key))}
           \cup {Entry(fn, dataset_id, api_key, t, Tuple(run))}

\* a store that drops the entry of the call's arguments
evict_result(store, fn, dataset_id, api_key, t, value) ==
    {e \in store : ~(e.fn = fn /\ e.dataset_id = dataset_id /\ e.api_key = api_key)}

\* the wrapper's store after the function returned value: the entry of the
\* call's arguments is written, over the one that may be there
write_result(store, fn, dataset_id, api_key, t, value) ==
    {e \in store : ~(e.fn = fn /\ e.dataset_id = dataset_id /\ e.api_key = api_key)}
        \cup {Entry(fn, dataset_id, api_key, t, value)}

\* the function the wrapper of name fn runs on a miss
uncached(fn, dataset_id, api_key, resp) ==
    IF fn = "get_imf_data" THEN imf_uncached(dataset_id, api_key, resp)
    ELSE ecb_uncached(dataset_id, api_key, resp)

get_imf_data(store, t, dataset_url, api_key, resp) ==
    cache_data_result(store, "get_imf_data", dataset_url, api_key, t,
                      imf_uncached(dataset_url, api_key, resp))

get_ecb_data(store, t, dataset_id, api_key, resp) ==
    cache_data_result(store, "get_ecb_data", dataset_id, api_key, t,
                      ecb_uncached(dataset_id, api_key, resp))

(***************************************************************************)
(* src/sources/__init__.py                                                 *)
(***************************************************************************)
\* the map without its last entry
STRATEGY_MAP_less_census == {"fred", "bls", "coingecko", "imf", "oecd", "ecb", "generic"}

\* lines 10-19: the keys of the map
STRATEGY_MAP == {"fred", "bls", "coingecko", "imf", "oecd", "ecb", "generic", "census"}

\* strategy(dataset_id, api_key=api_key) for the strategy of source_type
strategy(store, t, source_type, dataset_id, api_key, resp) ==
    CASE source_type = "fred" -> get_fred_data(dataset_id, api_key, resp)
      [] source_type = "bls" -> get_bls_data(dataset_id, api_key, resp)
      [] source_type = "coingecko" -> get_crypto_data(dataset_id, api_key, resp)
      [] source_type = "imf" -> get_imf_data(store, t, dataset_id, api_key, resp)
      [] source_type = "oecd" -> get_oecd_data(dataset_id, api_key, resp)
      [] source_type = "ecb" -> get_ecb_data(store, t, dataset_id, api_key, resp)
      [] source_type = "generic" -> get_generic_json(dataset_id, api_key, resp)
      [] source_type = "census" -> get_census_data(dataset_id, api_key, resp)

fetch_data(store, t, source_type, dataset_id, api_key, resp) ==
    IF source_type \notin STRATEGY_MAP
    THEN IF Contains(dataset_id, http)
         THEN get_generic_json(dataset_id, None, resp)
         ELSE Return(None, None, Msg("No connector found for type", 0))
    ELSE strategy(store, t, source_type, dataset_id, api_key, resp)

\* the cache after fetch_data(source_type, dataset_id, api_key) returned run: a
\* call the cache answered leaves it as it was
fetch_data_cache(store, t, source_type, dataset_id, api_key, run) ==
    CASE source_type = "imf" -> cache_data_store(store, "get_imf_data", dataset_id, api_key, t, run)
      [] source_type = "ecb" -> cache_data_store(store, "get_ecb_data", dataset_id, api_key, t, run)
      [] OTHER -> store

(***************************************************************************)
(* src/app.py: the page's own fetchers                                     *)
(***************************************************************************)
\* lines 60-74: the statements of src/sources/fred.py
fetch_fred(dataset_id, api_key, resp) ==
    IF ~Truthy(api_key) THEN Return(None, None, Msg("API Key Required", 0))
    ELSE LET url == fred_url(dataset_id, api_key)
             r == Send(url, resp)
             try == After(<<Request("GET", url)>>,
                          CASE Raised(r) -> Propagate(r.exc)
                            [] r.val.status = 200 -> fred_parse(r.val)
                            [] OTHER -> Return(None, None, Msg("Status", r.val.status)))
         IN  Except(try, FailedWith)

\* lines 76-132: the statements of src/sources/bls.py; the date_str column they
\* add is not among the columns returned
fetch_bls(dataset_id, api_key, resp) ==
    LET r == Send(bls_url, resp)
        try == After(<<Request("POST", bls_url)>>,
                     CASE Raised(r) -> Propagate(r.exc)
                       [] r.val.status = 200 -> bls_ok(r.val)
                       [] OTHER -> Return(None, None, Msg("Status", r.val.status)))
    IN  Except(try, FailedWith)

\* lines 134-145
fetch_coingecko(dataset_id, api_key, resp) ==
    LET url == coingecko_url(dataset_id)
        r == Send(url, resp)
        try == After(<<Request("GET", url)>>,
                     CASE Raised(r) -> Propagate(r.exc)
                       [] r.val.status = 200 -> coingecko_parse(r.val)
                       [] OTHER -> Return(None, None, Msg("Status", r.val.status)))
    IN  Except(try, FailedWith)

\* pd.to_datetime(x, format='%Y') of one cell
to_datetime_year_cell(c) ==
    CASE IsNull(c) -> Ok(NaT)
      [] c.t = "str" /\ Len(c.v) = 4 /\ IsDigits(c.v) -> Ok(Timestamp(Ymd(DigitsVal(c.v), 1, 1)))
      [] OTHER -> Raise("ValueError")

\* lines 155-162: the statements of the inner try of fetch_imf
app_imf_parse(raw_json) ==
    Then(DictGet(raw_json, K("values"), Dict(<<>>)), LAMBDA values :
    Then(In(K("NGDP_RPCH"), values), LAMBDA found :
    IF ~found
    THEN Return(None, raw_json, Msg("Data structure mismatch (Parsing failed)", 0)) ELSE
    Then(Subscript(Get(raw_json, K("values")), K("NGDP_RPCH")), LAMBDA by_indicator :
    Then(DictGet(by_indicator, K("USA"), Dict(<<>>)), LAMBDA usa_data :
    Check(usa_data.t = "dict", "AttributeError",
    Then(Convert(DataFrame(<<c_date, c_value>>,
                           [i \in DOMAIN usa_data.v |->
                              (c_date :> Str(usa_data.v[i][1])) @@ (c_value :> Cell(usa_data.v[i][2]))]),
                 c_date, to_datetime_year_cell),
         LAMBDA df1 :
    Then(Convert(df1, c_value, to_numeric_cell), LAMBDA df :
    Return(df, raw_json, None))))))))

\* lines 152-165: the statements under `if r.status_code == 200`
app_imf_ok(r) ==
    Then(Json(r), LAMBDA raw_json :
    Except(app_imf_parse(raw_json),
           LAMBDA parse_error : Return(None, raw_json, Msg("Parsing Error", 0))))

\* lines 147-167
fetch_imf(dataset_id, api_key, resp) ==
    LET r == Send(dataset_id, resp)
        try == After(<<Request("GET", dataset_id)>>,
                     CASE Raised(r) -> Propagate(r.exc)
                       [] r.val.status = 200 -> app_imf_ok(r.val)
                       [] OTHER -> Return(None, None, Msg("Status", r.val.status)))
    IN  Except(try, FailedWith)

\* lines 169-180
fetch_oecd(dataset_id, api_key, resp) ==
    LET r == Send(dataset_id, resp)
        json == Json(r.val)
        try == After(<<Request("GET", dataset_id)>>,
                     CASE Raised(r) -> Propagate(r.exc)
                       [] r.val.status = 200 ->
                             IF Raised(json) THEN Propagate(json.exc)
                             ELSE Return(None, json.val,
                                         Msg("SDMX-JSON received. Parsing disabled in Strict Mode.", 0))
                       [] r.val.status = 403 ->
                             Return(None, None, Msg("Access Denied (403). Server blocked the script.", 403))
                       [] OTHER -> Return(None, None, Msg("Status", r.val.status)))
    IN  Except(try, FailedWith)

\* lines 182-239: the statements of src/sources/ecb.py, with line 230 returning
\* df.dropna() unsorted
fetch_ecb(dataset_id, api_key, resp) ==
    LET url == ecb_url(dataset_id)
        r == Send(url, resp)
        try == After(<<Request("GET", url)>>,
                     CASE Raised(r) -> Propagate(r.exc)
                       [] r.val.status = 200 -> ecb_ok(r.val, dropna)
                       [] r.val.status = 406 ->
                             Return(None, None, Msg("406 Error: Server rejected headers.", 406))
                       [] OTHER -> Return(None, None, Msg("Status", r.val.status)))
    IN  Except(try, FailedWith)

\* lines 242-249: FETCH_STRATEGIES.get(type) applied to the arguments, None for
\* a type the dict lacks
FETCH_STRATEGIES == {"fred", "bls", "coingecko", "imf", "oecd_strict", "ecb"}

app_strategy(type, dataset_id, api_key, resp) ==
    CASE type = "fred" -> fetch_fred(dataset_id, api_key, resp)
      [] type = "bls" -> fetch_bls(dataset_id, api_key, resp)
      [] type = "coingecko" -> fetch_coingecko(dataset_id, api_key, resp)
      [] type = "imf" -> fetch_imf(dataset_id, api_key, resp)
      [] type = "oecd_strict" -> fetch_oecd(dataset_id, api_key, resp)
      [] type = "ecb" -> fetch_ecb(dataset_id, api_key, resp)

\* lines 13-56: each source's type and the identifiers of its datasets
DATA_CATALOG ==
    [ FRED |-> [type |-> "fred",
                datasets |-> {K("GDP"), K("IPB51222S"), K("PCU518210518210"), K("CBBTCUSD")}],
      BLS |-> [type |-> "bls",
               datasets |-> {K("CUSR0000SA0"), K("LNS14000000"), K("LNS11300000")}],
      CoinGecko |-> [type |-> "coingecko", datasets |-> {K("bitcoin")}],
      IMF |-> [type |-> "imf",
               datasets |-> {https_prefix \o K("www.imf.org/external/datamapper/api/v1/NGDP_RPCH")}],
      OECD |-> [type |-> "oecd_strict",
                datasets |-> {https_prefix
                                \o K("stats.oecd.org/SDMX-JSON/data/QNA/USA.B1_GE.CQR.A/all?startTime=2022-Q1")}],
      ECB |-> [type |-> "ecb",
               datasets |-> {<<"ICP", ".", "M", ".", "U2", ".", "N", ".", "000000", ".", "4", ".", "ANR">>,
                             <<"EXR", ".", "D", ".", "USD", ".", "EUR", ".", "SP00", ".", "A">>}] ]

\* one element the page shows: the streamlit call and what it is given
El(kind, arg) == [kind |-> kind, arg |-> arg]

\* the st.markdown of fetch_imf, fetch_oecd (the identifier) and fetch_ecb (the url)
app_requesting(type, dataset_id) ==
    CASE type \in {"imf", "oecd_strict"} -> <<El("st.markdown", dataset_id)>>
      [] type = "ecb" -> <<El("st.markdown", ecb_url(dataset_id))>>
      [] OTHER -> <<>>

\* df.empty
Empty(df) == df.v.rows = <<>> \/ df.v.columns = <<>>

\* lines 336-342: the banner
app_banner(df, raw_json, error) ==
    IF Truthy(error) /\ ~Truthy(raw_json) THEN <<El("st.error", error)>>
    ELSE IF Truthy(error) /\ Truthy(raw_json)
    THEN <<El("st.success", None), El("st.warning", error)>>
    ELSE <<El("st.success", None)>>

\* lines 345-351: the results
app_results(df, raw_json, error) ==
    IF ~IsNone(df) /\ ~Empty(df)
    THEN <<El("render_completeness_test", df), El("render_visual_potential", df)>>
    ELSE IF Truthy(raw_json) THEN <<El("st.subheader", None), El("st.json", raw_json)>>
    ELSE <<>>

\* lines 328-353: what one click on "Run Validation" shows, given the outcome o of
\* the strategy
app_page(type, dataset_id, o) ==
    IF type \notin FETCH_STRATEGIES THEN <<El("st.subheader", dataset_id), El("st.error", None)>>
    ELSE <<El("st.subheader", dataset_id)>> \o app_requesting(type, dataset_id)
           \o app_banner(o.table, o.raw, o.error) \o app_results(o.table, o.raw, o.error)

(***************************************************************************)
(* src/core/ui.py: normalize_wide_data                                     *)
(***************************************************************************)
\* a table whose rows hold their cells in column order, so that two columns may
\* carry one name
Table(columns, rows) == J("table", [columns |-> columns, rows |-> rows])

\* the positions of the columns named name
Positions(df, name) == {j \in DOMAIN df.v.columns : df.v.columns[j] = name}

\* df[name] of a name one column carries
Position(df, name) == CHOOSE j \in Positions(df, name) : TRUE

\* df[name] = convert(df[name]) with errors='coerce': a failing cell becomes null
CoerceColumn(df, name, convert(_), null) ==
    Table(df.v.columns,
          [i \in DOMAIN df.v.rows |->
             [j \in DOMAIN df.v.columns |->
                IF df.v.columns[j] # name THEN df.v.rows[i][j]
                ELSE IF Raised(convert(df.v.rows[i][j])) THEN null
                ELSE convert(df.v.rows[i][j]).val]])

\* df.rename(columns=mapping) of a table: every column named old is renamed
rename_columns(df, mapping) ==
    LET new(c) == IF \E i \in DOMAIN mapping : mapping[i][1] = c
                  THEN mapping[CHOOSE i \in DOMAIN mapping : mapping[i][1] = c][2]
                  ELSE c
    IN  Table([j \in DOMAIN df.v.columns |-> new(df.v.columns[j])], df.v.rows)

c_value_desc == K("value_desc")

c_melted_numeric_value == K("melted_numeric_value")

\* line 14: re.match(r'^\d{4}(?:-[QM]\d{2})?$', str(c))
date_col_match(c) ==
    \/ Len(c) = 4 /\ IsDigits(c)
    \/ /\ Len(c) = 8
       /\ IsDigits(SubSeq(c, 1, 4))
       /\ c[5] = "-"
       /\ c[6] \in {"Q", "M"}
       /\ IsDigits(SubSeq(c, 7, 8))

\* line 14
date_cols(df) == SelectSeq(df.v.columns, date_col_match)

\* every column of the table
id_cols_all(df) == df.v.columns

\* line 19
id_cols(df) == LET other(c) == c \notin Range(date_cols(df)) IN SelectSeq(df.v.columns, other)

\* str.replace(pat, repl, regex=True) of a pattern without metacharacters
RECURSIVE str_replace(_, _, _)
str_replace(s, pat, repl) ==
    IF Len(s) < Len(pat) \/ pat = <<>> THEN s
    ELSE IF SubSeq(s, 1, Len(pat)) = pat
         THEN repl \o str_replace(SubSeq(s, Len(pat) + 1, Len(s)), pat, repl)
         ELSE <<Head(s)>> \o str_replace(Tail(s), pat, repl)

\* line 32: df.melt(id_vars, value_vars, var_name='date', value_name): one row per
\* value column and input row, the value columns outermost
melt(df, id_vars, value_vars, value_name) ==
    IF value_name \in Range(df.v.columns) THEN Raise("ValueError")
    ELSE LET n == Len(id_vars)
             row(d, i) == [j \in 1..(n + 2) |->
                             CASE j = n + 1 \/ (j <= n /\ id_vars[j] = c_date) -> Str(d)
                               [] j = n + 2 -> df.v.rows[i][Position(df, d)]
                               [] OTHER -> df.v.rows[i][Position(df, id_vars[j])]]
         IN  Ok(Table(id_vars \o <<c_date, value_name>>,
                      Flatten([k \in DOMAIN value_vars |->
                                 [i \in DOMAIN df.v.rows |-> row(value_vars[k], i)]])))

\* lines 40-44
clean_date(x) ==
    LET q1 == str_replace(x, <<"-", "Q", "1">>, <<"-", "0", "1", "-", "0", "1">>)
        q2 == str_replace(q1, <<"-", "Q", "2">>, <<"-", "0", "4", "-", "0", "1">>)
        q3 == str_replace(q2, <<"-", "Q", "3">>, <<"-", "0", "7", "-", "0", "1">>)
        q4 == str_replace(q3, <<"-", "Q", "4">>, <<"-", "1", "0", "-", "0", "1">>)
    IN  str_replace(q4, <<"-", "M">>, <<"-">>)

\* line 47
normalize_annual(x) == IF Len(x) = 4 THEN x \o <<"-", "0", "1", "-", "0", "1">> ELSE x

\* lines 39-47 on one cell of the date column
date_text(c) == Ok(Str(normalize_annual(clean_date(c.v))))

\* lines 35-36
swap(df_melted, needs_swap) ==
    IF needs_swap
    THEN rename_columns(df_melted, << <<c_value, c_value_desc>>,
                                      <<c_melted_numeric_value, c_value>> >>)
    ELSE df_melted

\* lines 39-47; df_melted['date'] is a table, which has no .str, when two columns
\* are named date
clean_dates(df_melted) ==
    IF Cardinality(Positions(df_melted, c_date)) > 1 THEN Raise("AttributeError")
    ELSE Ok(CoerceColumn(df_melted, c_date, date_text, NaT))

\* lines 50-51
convert_types(df_melted) ==
    CoerceColumn(CoerceColumn(df_melted, c_date, to_datetime_cell, NaT),
                 c_value, to_numeric_cell, NaN)

\* line 53: dropna(subset=['value'])
dropna_value(df_melted) ==
    LET kept(row) == ~IsNull(row[Position(df_melted, c_value)])
    IN  Table(df_melted.v.columns, SelectSeq(df_melted.v.rows, kept))

normalize_wide_data(df) ==
    IF Len(date_cols(df)) > 3
    THEN Bind(melt(df, id_cols(df), date_cols(df),
                   IF c_value \in Range(id_cols(df)) THEN c_melted_numeric_value ELSE c_value),
              LAMBDA df_melted :
         Bind(clean_dates(swap(df_melted, c_value \in Range(id_cols(df)))), LAMBDA cleaned :
         Ok(dropna_value(convert_types(cleaned)))))
    ELSE Ok(df)

(***************************************************************************)
(* src/sources/local.py: parse_uploaded_file, from the table that read_csv *)
(* or read_excel made of the uploaded file                                 *)
(***************************************************************************)
uppercase ==
    <<"A", "B", "C", "D", "E", "F", "G", "H", "I", "J", "K", "L", "M",
      "N", "O", "P", "Q", "R", "S", "T", "U", "V", "W", "X", "Y", "Z">>

lowercase ==
    <<"a", "b", "c", "d", "e", "f", "g", "h", "i", "j", "k", "l", "m",
      "n", "o", "p", "q", "r", "s", "t", "u", "v", "w", "x", "y", "z">>

lower_char(ch) ==
    IF \E i \in DOMAIN uppercase : uppercase[i] = ch
    THEN lowercase[CHOOSE i \in DOMAIN uppercase : uppercase[i] = ch]
    ELSE ch

\* s.lower()
lower(s) == [i \in DOMAIN s |-> lower_char(s[i])]

RECURSIVE lstrip(_)
lstrip(s) == IF s # <<>> /\ Head(s) = " " THEN lstrip(Tail(s)) ELSE s

RECURSIVE rstrip(_)
rstrip(s) == IF s # <<>> /\ s[Len(s)] = " " THEN rstrip(SubSeq(s, 1, Len(s) - 1)) ELSE s

\* s.strip()
strip(s) == lstrip(rstrip(s))

\* s.endswith(p)
EndsWith(s, p) == Len(s) >= Len(p) /\ SubSeq(s, Len(s) - Len(p) + 1, Len(s)) = p

c_time == <<"t", "i", "m", "e">>

c_obs == <<"o", "b", "s">>

c_rate == <<"r", "a", "t", "e">>

dot_csv == <<".", "c", "s", "v">>

dot_xls == <<".", "x", "l", "s">>

dot_xlsx == <<".", "x", "l", "s", "x">>

\* lines 14 and 25: the file is read as CSV or as Excel
supported(name) ==
    \/ EndsWith(lower(name), dot_csv)
    \/ EndsWith(lower(name), dot_xls)
    \/ EndsWith(lower(name), dot_xlsx)

\* line 32: df.columns = df.columns.str.strip()
strip_columns(df) ==
    Table([j \in DOMAIN df.v.columns |-> strip(df.v.columns[j])], df.v.rows)

\* line 35: the condition of the comprehension
date_like(c) ==
    \/ Contains(lower(c), c_date)
    \/ Contains(lower(c), c_period)
    \/ Contains(lower(c), c_time)

\* line 41: the condition of the comprehension
value_like(c) ==
    \/ Contains(lower(c), c_value)
    \/ Contains(lower(c), c_obs)
    \/ Contains(lower(c), c_rate)

\* lines 35-38; df['date'] of a name two columns carry is a table, of which
\* pd.to_datetime assembles a date from columns year, month and day, or raises
local_dates(df) ==
    IF SelectSeq(df.v.columns, date_like) # <<>> /\ c_date \notin Range(df.v.columns)
    THEN Bind(Ok(rename_columns(df, << <<SelectSeq(df.v.columns, date_like)[1], c_date>> >>)),
              LAMBDA renamed :
                IF Cardinality(Positions(renamed, c_date)) > 1 THEN Raise("ValueError")
                ELSE Ok(CoerceColumn(renamed, c_date, to_datetime_cell, NaT)))
    ELSE Ok(df)

\* lines 41-44; pd.to_numeric takes no table
local_values(df) ==
    IF SelectSeq(df.v.columns, value_like) # <<>> /\ c_value \notin Range(df.v.columns)
    THEN Bind(Ok(rename_columns(df, << <<SelectSeq(df.v.columns, value_like)[1], c_value>> >>)),
              LAMBDA renamed :
                IF Cardinality(Positions(renamed, c_value)) > 1 THEN Raise("TypeError")
                ELSE Ok(CoerceColumn(renamed, c_value, to_numeric_cell, NaN)))
    ELSE Ok(df)

local_info == Dict(<< <<K("info"), Str(K("Loaded from local file"))>> >>)

\* lines 10-49; name is the file's name and df the table read from it
parse_uploaded_file(name, df) ==
    IF ~supported(name)
    THEN Return(None, None, Msg("Unsupported file format. Please upload CSV or Excel.", 0))
    ELSE Except(Then(local_dates(strip_columns(df)), LAMBDA dated :
                Then(local_values(dated), LAMBDA valued :
                Return(valued, local_info, None))),
                LAMBDA e : Return(None, None, Msg("Parsing Error", 0)))

(***************************************************************************)
(* src/core/ui.py: render_completeness                                     *)
(***************************************************************************)
c_target == <<"t", "a", "r", "g", "e", "t">>

\* lines 98-103: the dict, in the order it is written
dimensions ==
    << <<"Temporal", {c_date, c_year, c_time, c_timestamp}>>,
       <<"Geospatial", {K("iso"), K("country"), K("lat"), K("lon"), c_source, K("state"),
                        K("county"), K("fips"), K("name"), K("region")}>>,
       <<"Quantitative", {c_value, K("price"), K("count"), K("gdp"), K("index"),
                          c_obs \o <<"_">> \o c_value, K("p1_001n"), K("estimate")}>>,
       <<"Relational", {c_source, c_target, K("partner")}>> >>

\* the matching columns, the last one first
found_backwards(df, keywords) ==
    LET matches == {j \in DOMAIN df.v.columns : lower(df.v.columns[j]) \in keywords}
        RECURSIVE down(_)
        down(j) == IF j = 0 THEN <<>>
                   ELSE IF j \in matches THEN <<df.v.columns[j]>> \o down(j - 1)
                   ELSE down(j - 1)
    IN  down(Len(df.v.columns))

\* line 107: [col for col in df.columns if col.lower() in keywords]
found(df, keywords) ==
    LET matching(col) == lower(col) \in keywords
    IN  SelectSeq(df.v.columns, matching)

\* lines 108-114: what column i of the scorecard shows
scorecard_column(df, dim, keywords) ==
    IF found(df, keywords) # <<>>
    THEN <<El("st.success", dim), El("st.caption", found(df, keywords)[1])>>
    ELSE <<El("st.error", dim), El("st.caption", K("Missing"))>>

\* lines 91-114
render_completeness(df) ==
    Flatten([i \in DOMAIN dimensions |->
               scorecard_column(df, dimensions[i][1], dimensions[i][2])])

(***************************************************************************)
(* The upstream behaviours and identifiers the model draws from            *)
(***************************************************************************)
Resp(status, ctype, body) == [fails |-> FALSE, status |-> status, ctype |-> ctype, body |-> body]

\* the transport raises (DNS, timeout, refused connection)
TransportFails == [fails |-> TRUE, status |-> 0, ctype |-> <<>>, body |-> NotJson]

ct_json == <<"a", "p", "p", "/", "j", "s", "o", "n">>

ct_csv == <<"t", "e", "x", "t", "/", "c", "s", "v">>

ct_html == <<"t", "e", "x", "t", "/", "h", "t", "m", "l">>

\* statuses other than 200: an empty 204, client errors, a server error
OtherStatuses == {204, 403, 404, 406, 429, 500}

NotOk == {Resp(s, ct_html, NotJson) : s \in OtherStatuses}

Ok200(bodies) == {Resp(200, ct_json, b) : b \in bodies}

Pair(k, v) == <<k, v>>

s_2020 == <<"2", "0", "2", "0">>

s_2021 == <<"2", "0", "2", "1">>

s_2023 == <<"2", "0", "2", "3">>

s_jan2020 == <<"2", "0", "2", "0", "-", "0", "1", "-", "0", "1">>

s_feb2020 == <<"2", "0", "2", "0", "-", "0", "2", "-", "0", "1">>

s_1_0 == <<"1", ".", "0">>

s_3_1 == <<"3", ".", "1">>

s_3_5 == <<"3", ".", "5">>

s_5_7 == <<"5", ".", "7">>

s_neg3_4 == <<"-", "3", ".", "4">>

s_na == <<"n", "/", "a">>

s_dot == <<".">>

s_M01 == <<"M", "0", "1">>

s_M02 == <<"M", "0", "2">>

s_M13 == <<"M", "1", "3">>

s_US == <<"U", "S">>

s_DE == <<"D", "E">>

ErrorEnvelope == Dict(<<Pair(K("error_message"), Str(K("Bad Request.")))>>)

EmptyObject == Dict(<<>>)

\* ---- FRED ----
FredObs(date, value) == Dict(<<Pair(c_date, Str(date)), Pair(c_value, Str(value))>>)

FredSeries ==
    Dict(<<Pair(K("observations"), List(<<FredObs(s_jan2020, s_1_0), FredObs(s_feb2020, s_dot)>>))>>)

FredBodies ==
    { NotJson, ErrorEnvelope,
      Dict(<<Pair(K("observations"), List(<<>>))>>),
      FredSeries,
      Dict(<<Pair(K("observations"), List(<<FredObs(s_na, s_1_0)>>))>>) }

\* ---- BLS ----
BlsDatum(year, period, value) ==
    Dict(<<Pair(c_year, Str(year)), Pair(c_period, Str(period)), Pair(c_value, Str(value))>>)

BlsSucceeded(results) == Dict(<<Pair(K("status"), REQUEST_SUCCEEDED), Pair(K("Results"), results)>>)

BlsSeries(data) ==
    BlsSucceeded(Dict(<<Pair(K("series"), List(<<Dict(<<Pair(K("data"), List(data))>>)>>))>>))

BlsMonthly == BlsSeries(<<BlsDatum(s_2023, s_M02, s_3_5), BlsDatum(s_2023, s_M01, s_3_1)>>)

BlsBodies ==
    { NotJson, EmptyObject,
      Dict(<<Pair(K("status"), Str(K("REQUEST_NOT_PROCESSED"))),
             Pair(K("message"), List(<<Str(K("daily threshold reached"))>>))>>),
      BlsSucceeded(EmptyObject),
      BlsSucceeded(Dict(<<Pair(K("series"), List(<<>>))>>)),
      BlsSeries(<<>>),
      BlsMonthly,
      BlsSeries(<<BlsDatum(s_2023, s_M01, s_3_1), BlsDatum(s_2023, s_M02, <<"-">>)>>),
      BlsSeries(<<BlsDatum(s_2023, s_M01, s_3_1), BlsDatum(s_2023, s_M13, s_3_5)>>) }

\* ---- CoinGecko ----
CoinPrices ==
    Dict(<<Pair(K("prices"), List(<<List(<<Num(0), Num(10)>>), List(<<Num(MsPerDay), Num(20)>>)>>))>>)

CoinBodies ==
    { NotJson, ErrorEnvelope,
      Dict(<<Pair(K("prices"), List(<<>>))>>),
      CoinPrices,
      Dict(<<Pair(K("prices"), List(<<List(<<Num(0), Num(10)>>), List(<<Num(MsPerDay), None>>)>>))>>) }

\* ---- generic ----
GenericBodies == {NotJson, EmptyObject, ErrorEnvelope, List(<<Num(1)>>)}

\* the JSON document `null`, which json() decodes to None
JsonNull == None

\* ---- Census ----
CensusTable ==
    List(<<List(<<Str(K("NAME")), Str(K("POP"))>>),
           List(<<Str(K("Alabama")), Str(<<"5", "0", "0", "0">>)>>)>>)

CensusBodies ==
    { NotJson, ErrorEnvelope, List(<<>>),
      CensusTable,
      List(<<List(<<Str(K("NAME")), Str(K("POP"))>>), List(<<Str(K("Alabama"))>>)>>),
      List(<<Dict(<<Pair(K("NAME"), Str(K("Alabama"))), Pair(K("POP"), Num(5000))>>)>>) }

\* ---- IMF ----
Obs(period, value) == Dict(<<Pair(K("@TIME_PERIOD"), Str(period)), Pair(K("@OBS_VALUE"), Str(value))>>)

Series(area, obs) == Dict(<<Pair(K("@REF_AREA"), Str(area)), Pair(K("Obs"), obs)>>)

Compact(series) ==
    Dict(<<Pair(K("CompactData"), Dict(<<Pair(K("DataSet"), Dict(<<Pair(K("Series"), series)>>))>>))>>)

DataMapper(indicators) == Dict(<<Pair(K("values"), Dict(indicators))>>)

Indicator(name, area, years) == Pair(K(name), Dict(<<Pair(area, Dict(years))>>))

CompactTwoSeries ==
    Compact(List(<<Series(s_US, List(<<Obs(s_2021, s_3_1), Obs(s_2020, s_1_0)>>)),
                   Series(s_DE, Obs(s_2020, s_3_5))>>))

ImfBodies ==
    { NotJson, EmptyObject,
      Dict(<<Pair(K("CompactData"), EmptyObject)>>),
      CompactTwoSeries,
      Compact(Series(s_US, List(<<Obs(s_2020, s_1_0), Obs(s_2021, s_na)>>))),
      DataMapper(<<>>),
      DataMapper(<<Indicator("NGDP_RPCH", s_US, <<Pair(s_2020, Str(s_neg3_4)), Pair(s_2021, Str(s_5_7))>>)>>),
      DataMapper(<<Indicator("NGDP_RPCH", s_US, <<Pair(s_2020, Str(s_neg3_4)), Pair(s_2021, Str(s_na))>>)>>),
      DataMapper(<<Indicator("NGDP_RPCH", s_US, <<Pair(s_2020, Str(s_neg3_4))>>),
                   Indicator("PCPIPCH", s_US, <<Pair(s_2020, Str(s_1_0))>>)>>) }

\* ---- ECB ----
EcbStructure(names) ==
    Dict(<<Pair(K("dimensions"),
                Dict(<<Pair(K("observation"),
                            List(<<Dict(<<Pair(K("values"),
                                              List([i \in DOMAIN names |->
                                                      Dict(<<Pair(K("name"), Str(names[i]))>>)]))>>)>>))>>))>>)

EcbSeries(observations) == Dict(<<Pair(K("observations"), Dict(observations))>>)

EcbObs(idx, value) == Pair(<<idx>>, List(<<value>>))

EcbPayload(series, names) ==
    Dict(<<Pair(K("dataSets"), List(<<Dict(<<Pair(K("series"), Dict(series))>>)>>)),
           Pair(K("structure"), EcbStructure(names))>>)

EcbTwoMonths ==
    EcbPayload(<<Pair(K("0:0"), EcbSeries(<<EcbObs("1", Num(20)), EcbObs("0", Num(10))>>))>>,
               <<s_jan2020, s_feb2020>>)

EcbBodies ==
    { NotJson, EmptyObject,
      Dict(<<Pair(K("dataSets"), List(<<>>))>>),
      Dict(<<Pair(K("dataSets"), List(<<EmptyObject>>))>>),
      Dict(<<Pair(K("dataSets"), List(<<Dict(<<Pair(K("series"), EmptyObject)>>)>>))>>),
      Dict(<<Pair(K("dataSets"),
                  List(<<Dict(<<Pair(K("series"),
                                    Dict(<<Pair(K("0:0"), EcbSeries(<<EcbObs("0", Num(10))>>))>>))>>)>>))>>),
      EcbTwoMonths,
      EcbPayload(<<Pair(K("0:0"), EcbSeries(<<EcbObs("0", Num(10)), EcbObs("1", None)>>)),
                   Pair(K("0:1"), EcbSeries(<<EcbObs("0", Num(30))>>))>>,
                 <<s_jan2020, s_feb2020>>),
      EcbPayload(<<Pair(K("0:0"), EcbSeries(<<EcbObs("0", Num(10)), EcbObs("2", Num(20))>>))>>,
                 <<s_jan2020, s_feb2020>>),
      EcbPayload(<<Pair(K("0:0"), EcbSeries(<<EcbObs("0", Num(10)),
                                              Pair(<<"-", "1">>, List(<<Num(20)>>))>>))>>,
                 <<s_jan2020, s_feb2020>>) }

\* ---- OECD ----
OecdRow(period, value) == (K("TIME_PERIOD") :> period) @@ (K("OBS_VALUE") :> value)

OecdCsv(table) == Resp(200, ct_csv, J("text", table))

OecdTimeSeries ==
    OecdCsv(DataFrame(<<K("TIME_PERIOD"), K("OBS_VALUE")>>,
                      <<OecdRow(Str(s_2020), Num(10)), OecdRow(Str(s_2021), Str(s_na))>>))

OecdResponses ==
    { OecdTimeSeries,
      OecdCsv(DataFrame(<<K("TIME_PERIOD")>>, <<(K("TIME_PERIOD") :> Str(s_2020))>>)),
      OecdCsv(DataFrame(<<K("LOCATION")>>, <<(K("LOCATION") :> Str(s_US))>>)),
      OecdCsv(None),
      Resp(200, ct_json, EmptyObject),
      Resp(200, ct_json, ErrorEnvelope),
      Resp(200, ct_json, NotJson),
      Resp(200, ct_html, NotJson) }

\* ---- identifiers and credentials ----
id_GDP == <<"G", "D", "P">>

id_bitcoin == K("bitcoin")

id_dotted == <<"I", "C", "P", ".", "M", ".", "U", "2">>

id_path == <<"E", "X", "R", "/", "D", ".", "U", "S", "D">>

url_api == https_prefix \o K("example.org/api")

id_httpx == http \o <<"x">>

id_census == K("api.census.gov/data/2020/dec/pl?get=NAME,P1_001N&for=state:*")

NoKey == None

EmptyKey == Str(<<>>)

SomeKey == Str(K("secret"))

Input(source_type, dataset_id, api_key, resp) ==
    [source_type |-> source_type, dataset_id |-> dataset_id, api_key |-> api_key, resp |-> resp]

Inputs(types, ids, keys, resps) ==
    {Input(ty, id, k, r) : ty \in types, id \in ids, k \in keys, r \in resps}

\* every response an adapter may meet, given the bodies of its 200 responses
Upstream(bodies) == Ok200(bodies) \cup NotOk \cup {TransportFails}

\* a 2xx response other than 200 that carries one of the bodies
NonAuthoritative(bodies) == {Resp(203, ct_json, b) : b \in bodies}

\* the calls of fetch_data the model makes
AllInputs ==
    Inputs({"fred"}, {id_GDP, <<>>}, {NoKey, EmptyKey, SomeKey}, Upstream(FredBodies))
      \cup Inputs({"bls"}, {id_GDP}, {NoKey, SomeKey}, Upstream(BlsBodies))
      \cup Inputs({"coingecko"}, {id_bitcoin}, {NoKey}, Upstream(CoinBodies))
      \cup Inputs({"generic", "custom"}, {url_api}, {NoKey}, Upstream(GenericBodies))
      \cup Inputs({"generic", "custom"}, {url_api}, {NoKey}, Ok200({JsonNull}))
      \cup Inputs({"generic", "custom", "oecd", "imf"}, {id_GDP, id_httpx}, {NoKey}, {TransportFails})
      \cup Inputs({"census"}, {id_census, url_api}, {NoKey},
                  Upstream(CensusBodies) \cup NonAuthoritative(CensusBodies))
      \cup Inputs({"imf"}, {url_api}, {NoKey, SomeKey}, Upstream(ImfBodies))
      \cup Inputs({"ecb"}, {id_dotted, id_path}, {NoKey, SomeKey}, Upstream(EcbBodies))
      \cup Inputs({"oecd"}, {url_api}, {NoKey}, OecdResponses \cup NotOk \cup {TransportFails})

(***************************************************************************)
(* State: the clock, the st.cache_data store, the number of calls made,    *)
(* the last call, what it returned and what the page shows                 *)
(***************************************************************************)
NoCall == Input("", <<>>, None, TransportFails)

Pending == [Return(None, None, None) EXCEPT !.exc = "pending"]

Init ==
    /\ now = 0
    /\ cache = {}
    /\ calls = 0
    /\ call = NoCall
    /\ result = Pending
    /\ ui = <<>>

\* fetch_data(source_type, dataset_id, api_key) while the upstream behaves as resp
FetchData(in) ==
    /\ result' = fetch_data(cache, now, in.source_type, in.dataset_id, in.api_key, in.resp)
    /\ cache' = fetch_data_cache(cache, now, in.source_type, in.dataset_id, in.api_key, result')
    /\ call' = in

\* main(), lines 292-353, with "Run Validation" pressed: the sidebar's choice of
\* source and dataset, the key the sidebar yields, the strategy's call and the page
main(selected_source, dataset_id, api_key, resp) ==
    LET type == DATA_CATALOG[selected_source].type
    IN  /\ call' = Input(type, dataset_id, api_key, resp)
        /\ result' = (IF type \in FETCH_STRATEGIES
                      THEN app_strategy(type, dataset_id, api_key, resp)
                      ELSE Pending)
        /\ ui' = (IF type \in FETCH_STRATEGIES /\ result'.exc # ""
                  THEN <<El("st.subheader", dataset_id)>>
                  ELSE app_page(type, dataset_id, result'))

\* lines 309-323: a key comes from st.secrets or the text input (empty when
\* nothing is typed) for FRED and BLS, and is None for the other sources
SidebarKeys(selected_source) ==
    IF DATA_CATALOG[selected_source].type \in {"fred", "bls"} THEN {EmptyKey, SomeKey} ELSE {NoKey}

\* the upstream behaviours a source of the catalog may show
AppImfBodies ==
    { NotJson, EmptyObject, List(<<>>), List(<<Num(1)>>),
      Dict(<<Pair(K("values"), List(<<Str(K("NGDP_RPCH"))>>))>>),
      DataMapper(<<Indicator("NGDP_RPCH", K("USA"), <<Pair(s_2020, Num(-34)), Pair(s_2021, Num(57))>>)>>),
      DataMapper(<<Indicator("NGDP_RPCH", K("USA"), <<Pair(s_2020, Str(s_na))>>)>>),
      DataMapper(<<Indicator("NGDP_RPCH", K("DEU"), <<Pair(s_2020, Num(10))>>)>>),
      DataMapper(<<Indicator("PCPIPCH", K("USA"), <<Pair(s_2020, Num(10))>>)>>) }

AppUpstream(selected_source) ==
    CASE selected_source = "FRED" -> Upstream(FredBodies)
      [] selected_source = "BLS" -> Upstream(BlsBodies)
      [] selected_source = "CoinGecko" -> Upstream(CoinBodies)
      [] selected_source = "IMF" -> Upstream(AppImfBodies)
      [] selected_source = "OECD" -> Upstream(GenericBodies)
      [] selected_source = "ECB" -> Upstream(EcbBodies)

(***************************************************************************)
(* SpecAdapters: one user action on a fresh process, over every upstream   *)
(* behaviour: a call of fetch_data, or a click on "Run Validation"         *)
(***************************************************************************)
Fetch ==
    /\ calls = 0
    /\ \E in \in AllInputs : FetchData(in)
    /\ calls' = 1
    /\ UNCHANGED <<now, ui>>

RunValidation ==
    /\ calls = 0
    /\ \E selected_source \in DOMAIN DATA_CATALOG :
         \E dataset_id \in DATA_CATALOG[selected_source].datasets :
           \E api_key \in SidebarKeys(selected_source) :
             \E resp \in AppUpstream(selected_source) :
               main(selected_source, dataset_id, api_key, resp)
    /\ calls' = 1
    /\ UNCHANGED <<now, cache>>

NextAdapters == Fetch \/ RunValidation

SpecAdapters == Init /\ [][NextAdapters]_vars

(***************************************************************************)
(* Spec: a session of one process.  Calls of fetch_data follow one another *)
(* while the clock advances, so that a call may find what an earlier call  *)
(* left in the st.cache_data store.                                        *)
(***************************************************************************)
MaxCalls == 3

MaxTicks == 2

\* the calls of a session: every adapter, and for the two memoized ones the same
\* identifier met by an upstream that answers well, badly or not at all
SessionInputs ==
    Inputs({"fred"}, {id_GDP}, {NoKey, SomeKey}, Ok200({FredSeries}))
      \cup Inputs({"bls"}, {id_GDP}, {NoKey}, Ok200({BlsMonthly}) \cup {TransportFails})
      \cup Inputs({"coingecko"}, {id_bitcoin}, {NoKey}, Ok200({CoinPrices}))
      \cup Inputs({"generic", "custom"}, {url_api}, {NoKey}, Ok200({EmptyObject}))
      \cup Inputs({"custom"}, {id_GDP}, {NoKey}, {TransportFails})
      \cup Inputs({"census"}, {id_census}, {NoKey}, Ok200({CensusTable}))
      \cup Inputs({"oecd"}, {url_api}, {NoKey}, {OecdTimeSeries})
      \cup Inputs({"imf"}, {id_GDP}, {NoKey}, {TransportFails})
      \cup Inputs({"imf"}, {url_api}, {NoKey},
                  Ok200({CompactTwoSeries, EmptyObject}) \cup {Resp(429, ct_html, NotJson)})
      \cup Inputs({"ecb"}, {id_dotted}, {NoKey},
                  Ok200({EcbTwoMonths, EmptyObject}) \cup {Resp(500, ct_html, NotJson), TransportFails})
      \cup Inputs({"ecb"}, {id_path}, {NoKey}, Ok200({EcbTwoMonths}))
      \cup Inputs({"ecb"}, {id_dotted}, {SomeKey}, Ok200({EcbTwoMonths}))

\* the clock advances by half the ttl
Step == ttl \div 2

Call ==
    /\ calls < MaxCalls
    /\ \E in \in SessionInputs : FetchData(in)
    /\ calls' = calls + 1
    /\ UNCHANGED <<now, ui>>

Tick ==
    /\ now < MaxTicks * Step
    /\ now' = now + Step
    /\ UNCHANGED <<cache, calls, call, result, ui>>

Next == Call \/ Tick

Spec == Init /\ [][Next]_vars

(***************************************************************************)
(* SpecSdmx: one IMF fetch on a fresh process, answered 200 with an        *)
(* SDMX-Compact payload of N series of M observations each                 *)
(***************************************************************************)
MaxSeries == 2

MaxObs == 2

SdmxAreas == <<s_US, s_DE, <<"F", "R">>>>

SdmxPeriods == <<s_2021, s_2020, s_2023>>

\* an @OBS_VALUE: two numbers and a text that is no number
SdmxValues == {s_1_0, s_3_5, s_na}

\* a payload's shape: the values of its N x M observations, and whether Series
\* (when N = 1) and Obs (when M = 1) come as one object rather than as a list
SdmxShapes ==
    UNION {[n : {N}, m : {M},
            values : [(1..N) \X (1..M) -> SdmxValues],
            series_object : IF N = 1 THEN BOOLEAN ELSE {FALSE},
            obs_object : IF M = 1 THEN BOOLEAN ELSE {FALSE}] :
           N \in 1..MaxSeries, M \in 1..MaxObs}

SdmxArea(i) == SdmxAreas[((i - 1) % Len(SdmxAreas)) + 1]

SdmxPeriod(j) == SdmxPeriods[((j - 1) % Len(SdmxPeriods)) + 1]

SdmxPayload(sh) ==
    LET obs(i) == [j \in 1..sh.m |-> Obs(SdmxPeriod(j), sh.values[<<i, j>>])]
        series == [i \in 1..sh.n |->
                     Series(SdmxArea(i), IF sh.obs_object THEN obs(i)[1] ELSE List(obs(i)))]
    IN  Compact(IF sh.series_object THEN series[1] ELSE List(series))

Extract ==
    /\ calls = 0
    /\ \E sh \in SdmxShapes :
         LET in == Input("imf", url_api, NoKey, Resp(200, ct_json, SdmxPayload(sh)))
         IN  /\ result' = fetch_data(cache, now, in.source_type, in.dataset_id, in.api_key, in.resp)
             /\ cache' = fetch_data_cache(cache, now, in.source_type, in.dataset_id,
                                          in.api_key, result')
             /\ call' = in @@ [shape |-> sh]
    /\ calls' = 1
    /\ UNCHANGED <<now, ui>>

NextSdmx == Extract

SpecSdmx == Init /\ [][NextSdmx]_vars

(***************************************************************************)
(* SpecNormalize: normalize_wide_data applied once to a table whose        *)
(* columns are identifier columns followed by period columns               *)
(***************************************************************************)
MaxRows == 2

s_2022 == <<"2", "0", "2", "2">>

Quarter(y, n) == y \o <<"-", "Q", n>>

Month(y, mm) == y \o <<"-", "M">> \o mm

c_country == K("country")

WideIdColumns ==
    {<<>>, <<c_country>>, <<c_country, c_value>>, <<c_value, c_value_desc>>,
     <<c_date, c_country>>, <<c_date, c_value>>}

WidePeriodColumns ==
    {<<>>,
     <<s_2020, s_2021, s_2022, s_2023>>,
     <<s_2020, s_2021, s_2022>>,
     <<s_2020, s_2021>>,
     <<Quarter(s_2020, "1"), Quarter(s_2020, "2"), Quarter(s_2020, "3"), Quarter(s_2020, "4")>>,
     <<Quarter(s_2020, "1"), Quarter(s_2020, "2"), Quarter(s_2020, "3")>>,
     <<Month(s_2020, <<"0", "1">>), Month(s_2020, <<"0", "2">>), Month(s_2020, <<"0", "3">>),
       Month(s_2020, <<"1", "2">>)>>,
     <<Month(s_2020, <<"0", "1">>), Month(s_2020, <<"0", "2">>), Month(s_2020, <<"0", "3">>),
       Month(s_2020, <<"1", "3">>)>>,
     <<s_2020, s_2021, Quarter(s_2021, "1"), Month(s_2021, <<"0", "6">>)>>,
     <<s_2020, s_2021, s_2022, s_2023, Quarter(s_2023, "4")>>}

\* a row's period cells: all numbers, or the first one missing, or the first one
\* a text that is no number
RowKinds == {"numbers", "missing", "text"}

WideRow(ids, periods, kind, i) ==
    [j \in 1..(Len(ids) + Len(periods)) |->
       CASE j > Len(ids) /\ j = Len(ids) + 1 /\ kind = "missing" -> NaN
         [] j > Len(ids) /\ j = Len(ids) + 1 /\ kind = "text" -> Str(s_na)
         [] j > Len(ids) -> Num(10 * i)
         [] ids[j] = c_country -> Str(SdmxArea(i))
         [] ids[j] = c_value -> Str(K("GDP growth"))
         [] ids[j] = c_value_desc -> Str(K("annual"))
         [] OTHER -> Str(s_2020 \o <<"-", "0", "1", "-", "0", "1">>)]

WideTables ==
    {Table(ids \o periods, [i \in 1..n |-> WideRow(ids, periods, kinds[i], i)]) :
       <<ids, periods, n, kinds>> \in
         UNION {WideIdColumns \X WidePeriodColumns \X {n} \X [1..n -> RowKinds] :
                n \in 1..MaxRows}}

Normalize ==
    /\ calls = 0
    /\ \E df \in WideTables :
         /\ call' = [df |-> df]
         /\ result' = normalize_wide_data(df)
    /\ calls' = 1
    /\ UNCHANGED <<now, cache, ui>>

NextNormalize == Normalize

SpecNormalize == Init /\ [][NextNormalize]_vars

(***************************************************************************)
(* SpecLocal: parse_uploaded_file applied once to an uploaded file whose   *)
(* header row holds up to MaxColumns distinct names                        *)
(***************************************************************************)
MaxColumns == 3

LocalNames ==
    {c_date, <<" ">> \o c_date, <<"D", "a", "t", "e">>,
     <<"P", "e", "r", "i", "o", "d">>, <<"P", "e", "r", "i", "o", "d", " ">>,
     c_year, c_time \o <<"_">> \o c_period, <<"u", "p">> \o c_date,
     c_value, c_obs \o <<"_">> \o c_value, <<"R", "a", "t", "e">>, c_country}

\* the header rows: read_csv and read_excel tell equal names apart by a suffix
LocalColumns ==
    {cols \in UNION {[1..n -> LocalNames] : n \in 1..MaxColumns} :
       \A i, j \in DOMAIN cols : cols[i] = cols[j] => i = j}

\* row i of the file: a date, a year, a number or a text by the column's name,
\* and in the second row a text that is neither date nor number
LocalRow(cols, i) ==
    [j \in DOMAIN cols |->
       CASE cols[j] = c_country -> Str(SdmxArea(i))
         [] cols[j] = c_year -> Num(2020)
         [] i = 2 -> Str(s_na)
         [] value_like(cols[j]) -> Num(10 * i)
         [] OTHER -> Str(s_jan2020)]

LocalFiles == {K("data") \o dot_csv, K("data") \o <<".", "X", "L", "S", "X">>, K("data.txt")}

LocalTables == {Table(cols, [i \in 1..MaxRows |-> LocalRow(cols, i)]) : cols \in LocalColumns}

Upload ==
    /\ calls = 0
    /\ \E name \in LocalFiles, df \in LocalTables :
         /\ call' = [name |-> name, df |-> df]
         /\ result' = parse_uploaded_file(name, df)
    /\ calls' = 1
    /\ UNCHANGED <<now, cache, ui>>

NextLocal == Upload

SpecLocal == Init /\ [][NextLocal]_vars

(***************************************************************************)
(* SpecScorecard: render_completeness applied once to a table of up to     *)
(* MaxScored columns                                                       *)
(***************************************************************************)
MaxScored == 4

ScoredNames ==
    {c_source, c_target, c_date, c_value, <<"D", "a", "t", "e">>, <<"V", "A", "L", "U", "E">>,
     c_year, K("country"), K("note")}

ScoredColumns ==
    {cols \in UNION {[1..n -> ScoredNames] : n \in 1..MaxScored} :
       \A i, j \in DOMAIN cols : cols[i] = cols[j] => i = j}

Scorecard ==
    /\ calls = 0
    /\ \E cols \in ScoredColumns :
         /\ call' = [df |-> Table(cols, <<>>)]
         /\ ui' = render_completeness(Table(cols, <<>>))
    /\ calls' = 1
    /\ UNCHANGED <<now, cache, result>>

NextScorecard == Scorecard

SpecScorecard == Init /\ [][NextScorecard]_vars

(***************************************************************************)
(* SpecRace: two script threads of one process call the same memoized      *)
(* adapter with the same arguments.  Each thread looks the arguments up in *)
(* the st.cache_data store, on a miss runs the function, which makes its   *)
(* request, and writes what the function returned to the store.  The steps *)
(* of the two threads interleave freely: the schedules of a wrapper that   *)
(* serializes the misses of one key are among them.  call holds the       *)
(* arguments and the position of each thread, result what each thread      *)
(* returned, calls the number of requests made.                            *)
(***************************************************************************)
Threads == {1, 2}

RaceCalls ==
    {[fn |-> "get_ecb_data", dataset_id |-> id_dotted, api_key |-> NoKey],
     [fn |-> "get_imf_data", dataset_id |-> url_api, api_key |-> NoKey]}

\* what the upstream may answer to a request of the wrapped function
RaceUpstream(fn) ==
    IF fn = "get_imf_data"
    THEN Ok200({CompactTwoSeries, EmptyObject}) \cup {Resp(429, ct_html, NotJson), TransportFails}
    ELSE Ok200({EcbTwoMonths, EmptyObject}) \cup {Resp(500, ct_html, NotJson), TransportFails}

Start ==
    /\ call = NoCall
    /\ \E c \in RaceCalls :
         call' = [fn |-> c.fn, dataset_id |-> c.dataset_id, api_key |-> c.api_key,
                  pc |-> [th \in Threads |-> "check"]]
    /\ result' = [th \in Threads |-> Pending]
    /\ UNCHANGED <<now, cache, calls, ui>>

\* the wrapper's lookup: a hit returns the stored value
Lookup(th) ==
    /\ call # NoCall
    /\ call.pc[th] = "check"
    /\ LET hits == Hits(cache, call.fn, call.dataset_id, call.api_key, now)
       IN  IF hits # {}
           THEN /\ \E e \in hits :
                     result' = [result EXCEPT ![th] =
                                  Return(e.value.table, e.value.raw, e.value.error)]
                /\ call' = [call EXCEPT !.pc[th] = "done"]
           ELSE /\ call' = [call EXCEPT !.pc[th] = "fetch"]
                /\ UNCHANGED result
    /\ UNCHANGED <<now, cache, calls, ui>>

\* the wrapped function runs: it makes its request and returns
Compute(th) ==
    /\ call # NoCall
    /\ call.pc[th] = "fetch"
    /\ \E resp \in RaceUpstream(call.fn) :
         result' = [result EXCEPT ![th] =
                      uncached(call.fn, call.dataset_id, call.api_key, resp)]
    /\ calls' = calls + Len(result'[th].reqs)
    /\ call' = [call EXCEPT !.pc[th] = "store"]
    /\ UNCHANGED <<now, cache, ui>>

\* the wrapper stores what the function returned; an exception stores nothing
Write(th) ==
    /\ call # NoCall
    /\ call.pc[th] = "store"
    /\ cache' = IF result[th].exc # "" THEN cache
                ELSE write_result(cache, call.fn, call.dataset_id, call.api_key,
                                  now, Tuple(result[th]))
    /\ call' = [call EXCEPT !.pc[th] = "done"]
    /\ UNCHANGED <<now, calls, result, ui>>

NextRace == Start \/ \E th \in Threads : Lookup(th) \/ Compute(th) \/ Write(th)

SpecRace == Init /\ [][NextRace]_vars

\* every thread that can take a step takes one in the end: a request returns or
\* times out, and the scheduler starves no thread
SpecRaceFair == SpecRace /\ WF_vars(NextRace)

(***************************************************************************)
(* Properties of one call                                                  *)
(***************************************************************************)
\* the call was one of fetch_data (src/sources), not a click on the page
ViaFetchData == calls = 1 /\ ui = <<>>

\* the call was a click on "Run Validation" (src/app.py)
ViaPage == calls = 1 /\ ui # <<>>

\* the HTTP client was called and the upstream answered with a response
Responded ==
    /\ result.reqs # <<>>
    /\ ValidUrl(result.reqs[1].url)
    /\ ~call.resp.fails

NamedAdapters == {"fred", "bls", "coingecko", "imf", "ecb", "oecd", "census"}

\* C1: for every adapter, a 200 response whose payload cannot be turned into a
\* table yields no table, an error message and the raw payload, non-null.  Stated
\* for the payloads that are JSON, which the adapter has in hand when it fails.
C1_RawPreserved ==
    (/\ ViaFetchData
     /\ call.source_type \in NamedAdapters
     /\ Responded
     /\ call.resp.status = 200
     /\ call.resp.body.t # "text"
     /\ IsNone(result.table))
        => (~IsNone(result.error) /\ ~IsNone(result.raw))

\* C2: every call of fetch_data, of a source adapter or of a fetcher of the page,
\* whatever the identifier (a string) and the upstream do, returns a
\* (table, raw, error) tuple and lets no exception out.
C2_NeverPropagates ==
    calls = 1 =>
        /\ result.exc = ""
        /\ (IsNone(result.table) \/ result.table.t = "df")
        /\ (IsNone(result.error) \/ result.error.t = "msg")

\* a transport exception, raised by the client the adapter called, came back as
\* an error result
C2_Witness ==
    /\ calls = 1
    /\ call.resp.fails
    /\ result.reqs # <<>>
    /\ result.exc = ""
    /\ result.error = StrE("ConnectionError")

\* C5: no row of a table an adapter returns has a null in its `value` column.
C5_NoNullValue ==
    (calls = 1 /\ result.table.t = "df" /\ HasColumn(result.table, c_value))
        => \A i \in DOMAIN result.table.v.rows : ~IsNull(result.table.v.rows[i][c_value])

\* the kinds of the elements the page shows
Shown == {ui[i].kind : i \in DOMAIN ui}

\* C6: after one "Run Validation", an error without a raw payload shows the
\* failure banner and neither scorecard, chart nor payload; an error with a raw
\* payload and no table shows the warning and the payload in the inspector; the
\* scorecard and the chart are shown only for a non-empty table.
C6_PageFollowsResult ==
    ViaPage =>
        /\ (~IsNone(result.error) /\ IsNone(result.raw) /\ IsNone(result.table))
              => /\ "st.error" \in Shown
                 /\ Shown \cap {"render_completeness_test", "render_visual_potential", "st.json"} = {}
        /\ (~IsNone(result.error) /\ ~IsNone(result.raw) /\ IsNone(result.table))
              => /\ "st.warning" \in Shown
                 /\ \E i \in DOMAIN ui : ui[i] = El("st.json", result.raw)
        /\ (Shown \cap {"render_completeness_test", "render_visual_potential"} # {})
              => (~IsNone(result.table) /\ ~Empty(result.table))

\* C7: for every adapter, a response whose status is not 200 yields an error that
\* identifies the status, no table and no raw payload.
C7_NonOkIsHttpError ==
    (ViaFetchData /\ Responded /\ call.resp.status # 200)
        => /\ IsNone(result.table)
           /\ IsNone(result.raw)
           /\ ~IsNone(result.error)
           /\ result.error.status = call.resp.status

\* C8: a FRED fetch with no credential (None or empty), through fetch_data or
\* through the page, returns "API Key Required" with no table and no raw payload,
\* and calls the HTTP client not at all, for every identifier and upstream.
C8_FredFailsFast ==
    (calls = 1 /\ call.source_type = "fred" /\ ~Truthy(call.api_key))
        => /\ result.exc = ""
           /\ IsNone(result.table)
           /\ IsNone(result.raw)
           /\ result.error = Msg("API Key Required", 0)
           /\ result.reqs = <<>>

\* FRED was asked without a key while the upstream would have answered 200
C8_Witness ==
    /\ calls = 1
    /\ call.source_type = "fred"
    /\ call.api_key \in {NoKey, EmptyKey}
    /\ ~call.resp.fails
    /\ call.resp.status = 200
    /\ call.resp.body.t = "dict"
    /\ result.error = Msg("API Key Required", 0)
    /\ result.reqs = <<>>

\* the response was a DataMapper payload whose `values` object has more than one
\* indicator key
ManyIndicators(body) ==
    /\ body.t = "dict"
    /\ ~HasKey(body, K("CompactData"))
    /\ HasKey(body, K("values"))
    /\ Subscript(body, K("values")).val.t = "dict"
    /\ Len(Subscript(body, K("values")).val.v) > 1

\* C15: an IMF DataMapper payload whose `values` object has more than one
\* indicator key yields an error and no table, not a table built from one of the
\* indicators.
C15_ManyIndicatorsRejected ==
    (/\ ViaFetchData
     /\ call.source_type = "imf"
     /\ Responded
     /\ call.resp.status = 200
     /\ ManyIndicators(call.resp.body))
        => (IsNone(result.table) /\ ~IsNone(result.error))

\* the data entries of a BLS payload that succeeded: every entry has a year,
\* a period Mnn and a value, all of them strings
BlsData(body) ==
    IF /\ body.t = "dict"
       /\ HasKey(body, K("status"))
       /\ Subscript(body, K("status")).val = REQUEST_SUCCEEDED
       /\ ~Raised(bls_series_data(body))
       /\ bls_series_data(body).val.t = "list"
    THEN bls_series_data(body).val.v
    ELSE <<>>

WellFormedEntry(e) ==
    /\ e.t = "dict"
    /\ \A k \in {c_year, c_period, c_value} : HasKey(e, k) /\ Subscript(e, k).val.t = "str"
    /\ Len(Subscript(e, c_year).val.v) = 4 /\ IsDigits(Subscript(e, c_year).val.v)
    /\ Len(Subscript(e, c_period).val.v) = 3
    /\ Subscript(e, c_period).val.v[1] = "M"
    /\ IsDigits(Tail(Subscript(e, c_period).val.v))

\* the month an entry's period names
MonthOf(e) == DigitsVal(Tail(Subscript(e, c_period).val.v))

\* the date of an entry of a calendar month: the first day of that month
FirstOfMonth(e) == Timestamp(Ymd(DigitsVal(Subscript(e, c_year).val.v), MonthOf(e), 1))

\* C16: for a BLS payload that succeeded, the table has one row per data entry
\* whose period is a calendar month, dated the first day of that month, the
\* rows ascending by date; an entry of period M13, the annual average, is left
\* out and does not affect the other rows.
C16_MonthlyRows ==
    (/\ calls = 1
     /\ call.source_type = "bls"
     /\ Responded
     /\ call.resp.status = 200
     /\ BlsData(call.resp.body) # <<>>
     /\ \A i \in DOMAIN BlsData(call.resp.body) : WellFormedEntry(BlsData(call.resp.body)[i]))
        => LET data == BlsData(call.resp.body)
               monthly == {i \in DOMAIN data : MonthOf(data[i]) \in 1..12}
               rows == result.table.v.rows
           IN  /\ result.table.t = "df"
               /\ Len(rows) = Cardinality(monthly)
               /\ \A i \in monthly : \E k \in DOMAIN rows :
                    /\ rows[k][c_date] = FirstOfMonth(data[i])
                    /\ IsDecimal(Subscript(data[i], c_value).val.v)
                         => rows[k][c_value] = Num(DecimalVal(Subscript(data[i], c_value).val.v))
               /\ \A k \in 1..(Len(rows) - 1) : rows[k][c_date].v <= rows[k + 1][c_date].v

\* raw_json['structure']['dimensions']['observation'][0]['values'] of a payload
TimeValues(body) ==
    Bind(Subscript(body, K("structure")), LAMBDA structure :
    Bind(Subscript(structure, K("dimensions")), LAMBDA dims :
    Bind(Subscript(dims, K("observation")), LAMBDA observation :
    Bind(First(observation), LAMBDA observation0 :
    Subscript(observation0, K("values"))))))

\* the observations of the first series key of a payload
FirstSeries(body) ==
    Bind(Subscript(body, K("dataSets")), LAMBDA dataSets :
    Bind(First(dataSets), LAMBDA dataset :
    Bind(Subscript(dataset, K("series")), LAMBDA series_dict :
    Bind(FirstKey(series_dict), LAMBDA key :
    Bind(Subscript(series_dict, key), LAMBDA series :
    Subscript(series, K("observations")))))))

\* the key of an observation is an index into an array of n entries
Inside(key, n) == IsDigits(key) /\ DigitsVal(key) < n

\* dataSets is missing or empty, series is missing, the array of the observation
\* dimension is missing, or an observation of the first series has a time index
\* outside that array
Unusable(body) ==
    \/ ~HasKey(body, K("dataSets"))
    \/ Get(body, K("dataSets")) \in {List(<<>>), EmptyObject, None}
    \/ Get(body, K("dataSets")).t = "list" /\ ~HasKey(Get(body, K("dataSets")).v[1], K("series"))
    \/ /\ ~Raised(FirstSeries(body))
       /\ FirstSeries(body).val.t = "dict"
       /\ \/ Raised(TimeValues(body))
          \/ TimeValues(body).val.t # "list"
          \/ \E i \in DOMAIN FirstSeries(body).val.v :
               ~Inside(FirstSeries(body).val.v[i][1], Len(TimeValues(body).val.v))

\* the row of observation i of the first series: the name at its time index,
\* as a date, and its first value
EcbRowOf(body, i) ==
    LET o == FirstSeries(body).val.v[i]
    IN  (c_date :> Timestamp(DateOf(Get(TimeValues(body).val.v[DigitsVal(o[1]) + 1], K("name")).v)))
          @@ (c_value :> o[2].v[1])

\* C17: for an ECB payload, a missing or empty dataSets, a missing series, a
\* missing array of the observation dimension or a time index outside that array
\* yields an error, no table and the raw payload, never an empty table;
\* otherwise the rows are those of the first series key alone, each dated by the
\* name at the observation's time index.
C17_EcbExtraction ==
    (/\ ViaFetchData
     /\ call.source_type = "ecb"
     /\ Responded
     /\ call.resp.status = 200
     /\ call.resp.body.t = "dict")
        => IF Unusable(call.resp.body)
           THEN /\ IsNone(result.table)
                /\ ~IsNone(result.error)
                /\ result.raw = call.resp.body
           ELSE (~Raised(FirstSeries(call.resp.body)) /\ result.table.t = "df")
                   => \A k \in DOMAIN result.table.v.rows :
                        \E i \in DOMAIN FirstSeries(call.resp.body).val.v :
                          result.table.v.rows[k] = EcbRowOf(call.resp.body, i)

(***************************************************************************)
(* Properties of a session                                                 *)
(***************************************************************************)
\* the function st.cache_data wraps for a memoized source type
Memoized == {"imf", "ecb"}

WrappedBy(source_type) == IF source_type = "imf" THEN "get_imf_data" ELSE "get_ecb_data"

\* the method of the one request an adapter makes
MethodOf(source_type) == IF source_type = "bls" THEN "POST" ELSE "GET"

ReturnsUnrequested(store, t, in) ==
    \/ in.source_type = "fred" /\ ~Truthy(in.api_key)
    \/ in.source_type = "imf" /\ ~StartsWith(in.dataset_id, http)
    \/ in.source_type \notin STRATEGY_MAP /\ ~Contains(in.dataset_id, http)
    \/ /\ in.source_type \in Memoized
       /\ \E e \in store :
            /\ e.fn = WrappedBy(in.source_type)
            /\ e.dataset_id = in.dataset_id
            /\ e.api_key = in.api_key
            /\ t < e.at + ttl

StoredSuccesses(store, t, in) ==
    {e \in store : /\ e.fn = WrappedBy(in.source_type)
                   /\ e.dataset_id = in.dataset_id
                   /\ e.api_key = in.api_key
                   /\ IsNone(e.value.error)
                   /\ t < e.at + ttl}

\* C4: an ECB or IMF fetch that follows a successful fetch of the same identifier
\* by less than an hour returns the stored result without a request; any other
\* ECB or IMF fetch (none before, the earlier one ended in an error, or the hour
\* has elapsed) issues a request.
C4_MemoizesSuccessesOnly ==
    [][(calls' = calls + 1 /\ call'.source_type \in Memoized
          /\ (call'.source_type = "imf" => StartsWith(call'.dataset_id, http)))
        => LET stored == StoredSuccesses(cache, now, call')
           IN  /\ stored # {} =>
                     /\ result'.reqs = <<>>
                     /\ \E e \in stored : e.value = Tuple(result')
               /\ stored = {} => result'.reqs # <<>>]_vars

(***************************************************************************)
(* Properties of the IMF SDMX extraction                                   *)
(***************************************************************************)
\* the observations of a payload whose @OBS_VALUE is a number
NumericObs(sh) == {ij \in (1..sh.n) \X (1..sh.m) : IsDecimal(sh.values[ij])}

\* the row the extraction owes to observation <<i, j>> of a payload
RowOf(sh, ij) ==
    (c_source :> Str(SdmxArea(ij[1]))) @@ (c_date :> Timestamp(DateOf(SdmxPeriod(ij[2]))))
        @@ (c_value :> Num(DecimalVal(sh.values[ij])))

\* C9: for an SDMX-Compact payload of N series of M observations each, Series and
\* Obs given as one object or as a list, the extraction returns a table of
\* N x M rows less the observations whose @OBS_VALUE is no number: the row of
\* every other observation is there, and the rows ascend by (source, date).
C9_RowPerNumericObservation ==
    calls = 1 =>
        LET sh == call.shape
            rows == result.table.v.rows
        IN  /\ result.table.t = "df"
            /\ Len(rows) = sh.n * sh.m - Cardinality(((1..sh.n) \X (1..sh.m)) \ NumericObs(sh))
            /\ \A ij \in NumericObs(sh) : \E k \in DOMAIN rows : rows[k] = RowOf(sh, ij)
            /\ \A k \in 1..(Len(rows) - 1) : ~SourceDateLess(rows[k + 1], rows[k])

(***************************************************************************)
(* Properties of normalize_wide_data                                       *)
(***************************************************************************)
\* a column name of the form YYYY, YYYY-Qn or YYYY-Mnn
DateToken(c) ==
    \/ Len(c) = 4 /\ IsDigits(c)
    \/ Len(c) = 7 /\ IsDigits(SubSeq(c, 1, 4)) /\ SubSeq(c, 5, 6) = <<"-", "Q">>
         /\ IsDigits(SubSeq(c, 7, 7))
    \/ Len(c) = 8 /\ IsDigits(SubSeq(c, 1, 4)) /\ SubSeq(c, 5, 6) = <<"-", "M">>
         /\ IsDigits(SubSeq(c, 7, 8))

DateTokens(df) == {c \in Range(df.v.columns) : DateToken(c)}

\* the cells of the date-token columns that hold no number
NullValues(df) ==
    {<<i, c>> \in (DOMAIN df.v.rows) \X DateTokens(df) :
       \/ Raised(to_numeric_cell(df.v.rows[i][Position(df, c)]))
       \/ IsNull(df.v.rows[i][Position(df, c)])}

\* the name an identifier column has in the melted table
KeptAs(c) == IF c = c_value THEN c_value_desc ELSE c

\* C10: a table with more than 3 columns named by a date token YYYY, YYYY-Qn or
\* YYYY-Mnn is melted: the output has one row per input row and date-token
\* column, less the rows whose value is null, and every other column is kept
\* as an identifier column; a table with 3 or fewer such columns is returned
\* unchanged.
C10_MeltsWideTables ==
    calls = 1 =>
        LET df == call.df
            ids == Range(df.v.columns) \ DateTokens(df)
        IN  /\ ~Raised(result)
            /\ IF Cardinality(DateTokens(df)) > 3
               THEN /\ Len(result.val.v.rows) =
                         Len(df.v.rows) * Cardinality(DateTokens(df)) - Cardinality(NullValues(df))
                    /\ \A c \in ids : KeptAs(c) \in Range(result.val.v.columns)
                    /\ \A k \in DOMAIN result.val.v.rows : \E i \in DOMAIN df.v.rows :
                         \A c \in ids : \E j \in Positions(result.val, KeptAs(c)) :
                           result.val.v.rows[k][j] = df.v.rows[i][Position(df, c)]
               ELSE result.val = df

\* the date the token mapping gives a column name, as yyyymmdd, or 0: YYYY is
\* 1 January, YYYY-Qn the first day of quarter n, YYYY-Mnn the first day of
\* month nn
TokenDate(c) ==
    LET y == DigitsVal(SubSeq(c, 1, 4))
    IN  CASE ~DateToken(c) -> 0
          [] Len(c) = 4 -> Ymd(y, 1, 1)
          [] Len(c) = 7 /\ DigitsVal(SubSeq(c, 7, 7)) \in 1..4 ->
               Ymd(y, 3 * DigitsVal(SubSeq(c, 7, 7)) - 2, 1)
          [] Len(c) = 8 /\ DigitsVal(SubSeq(c, 7, 8)) \in 1..12 ->
               Ymd(y, DigitsVal(SubSeq(c, 7, 8)), 1)
          [] OTHER -> 0

\* the table was melted and returned
Melted == calls = 1 /\ Len(date_cols(call.df)) > 3 /\ ~Raised(result)

\* C11: every row of a melted output carries the date the token mapping gives
\* one of the date-token columns of the input (-Q1..-Q4 the first day of the
\* quarter, -Mnn the first day of the month, YYYY 1 January); the rows of a
\* column whose token names no date, such as month 13, are dropped, so no row
\* has a null date.
C11_DatesFollowTokens ==
    Melted =>
        \A k \in DOMAIN result.val.v.rows :
            /\ ~IsNull(result.val.v.rows[k][Position(result.val, c_date)])
            /\ \E c \in Range(date_cols(call.df)) :
                 /\ TokenDate(c) # 0
                 /\ result.val.v.rows[k][Position(result.val, c_date)] = Timestamp(TokenDate(c))

\* the output keeps the text column `value` of the input under the name
\* value_desc and has the numbers of the melt under the name value
Disambiguated(df, out) ==
    /\ Cardinality(Positions(out, c_value)) = 1
    /\ Positions(out, c_value_desc) # {}
    /\ \A k \in DOMAIN out.v.rows :
         /\ out.v.rows[k][Position(out, c_value)].t = "num"
         /\ \E i \in DOMAIN df.v.rows : \E j \in Positions(out, c_value_desc) :
              out.v.rows[k][j] = df.v.rows[i][Position(df, c_value)]
    /\ \A i \in DOMAIN df.v.rows :
         (\E c \in DateTokens(df) : <<i, c>> \notin NullValues(df))
            => \E k \in DOMAIN out.v.rows : \E j \in Positions(out, c_value_desc) :
                 out.v.rows[k][j] = df.v.rows[i][Position(df, c_value)]

\* C12: for an input table with a text column named `value` and more than 3
\* date-token columns, the column named `value` of the output is the numeric
\* column the melt produced, and the text column is in the output under the
\* name `value_desc`, its contents preserved.
C12_ValueCollision ==
    (calls = 1 /\ c_value \in Range(call.df.v.columns) /\ Cardinality(DateTokens(call.df)) > 3)
        => (~Raised(result) /\ Disambiguated(call.df, result.val))

\* C14: normalize_wide_data is idempotent: applied to a table it returned, it
\* returns an equal table; and a table that is long already, with no date
\* columns to melt, is returned equal.
C14_Idempotent ==
    (calls = 1 /\ ~Raised(result))
        => /\ normalize_wide_data(result.val) = result
           /\ date_cols(call.df) = <<>> => result.val = call.df

\* a table was melted into rows, and normalizing the rows again changed nothing
C14_Witness ==
    /\ Melted
    /\ Len(result.val.v.rows) > Len(call.df.v.rows)
    /\ result.val # call.df
    /\ normalize_wide_data(result.val) = result

(***************************************************************************)
(* Properties of parse_uploaded_file                                       *)
(***************************************************************************)
\* the file was read and a table came back
TableReturned == calls = 1 /\ supported(call.name) /\ result.table.t = "table"

\* C13: after normalization (the synonym renaming of the local-file parser and
\* the melt), a table has at most one column named `date` and at most one named
\* `value`, whatever columns came in: a `date`, `value` or `value_desc` column
\* or a synonym padded with whitespace included.  Stated for the table
\* parse_uploaded_file returns.
C13_OneDateOneValue ==
    TableReturned
        => /\ Cardinality(Positions(result.table, c_date)) <= 1
           /\ Cardinality(Positions(result.table, c_value)) <= 1

\* the names the synonym resolution takes for a date and for a value column
DateSynonyms == {c_date, c_period, c_time, c_year, c_time \o <<"_">> \o c_period}

ValueSynonyms == {c_value, c_obs \o <<"_">> \o c_value, c_rate}

\* cols with the first name that matches a synonym, whatever its case, replaced
\* by the canonical name; unchanged when a column has the canonical name already
RenamedFirst(cols, synonyms, canonical) ==
    LET matches == {j \in DOMAIN cols : lower(cols[j]) \in synonyms}
    IN  IF canonical \in Range(cols) \/ matches = {} THEN cols
        ELSE [cols EXCEPT ![CHOOSE j \in matches : \A k \in matches : j <= k] = canonical]

\* C19: the local-file parser renames the first column, in column order, whose
\* name matches one of date, period, time, year, time_period whatever its case
\* to `date`, and the first one that matches value, obs_value or rate to
\* `value`; when a column has the canonical name already, it renames none and
\* overwrites none.  Every other name stays as it is.
C19_SynonymsRenamed ==
    TableReturned
        => result.table.v.columns =
             RenamedFirst(RenamedFirst(strip_columns(call.df).v.columns, DateSynonyms, c_date),
                          ValueSynonyms, c_value)

(***************************************************************************)
(* Properties of render_completeness                                       *)
(***************************************************************************)
\* the positions of the columns whose lowercased name is one of the keywords
Matching(cols, keywords) == {j \in DOMAIN cols : lower(cols[j]) \in keywords}

Least(S) == CHOOSE j \in S : \A k \in S : j <= k

\* the column the scorecard names for dimension i
Reported(i) == ui[2 * i].arg

\* C18: for each of the four dimensions the scorecard reports "found" exactly
\* when some column's lowercased name is one of the dimension's keywords, and
\* the column it names is the first such column in column order; for the columns
\* source, target, date, value it names date (Temporal), source (Geospatial),
\* value (Quantitative) and source (Relational).
C18_FirstMatchPerDimension ==
    calls = 1 =>
        /\ Len(ui) = 2 * Len(dimensions)
        /\ \A i \in DOMAIN dimensions :
             LET m == Matching(call.df.v.columns, dimensions[i][2])
             IN  IF m = {}
                 THEN ui[2 * i - 1] = El("st.error", dimensions[i][1])
                 ELSE /\ ui[2 * i - 1] = El("st.success", dimensions[i][1])
                      /\ Reported(i) = call.df.v.columns[Least(m)]
        /\ call.df.v.columns = <<c_source, c_target, c_date, c_value>>
              => <<Reported(1), Reported(2), Reported(3), Reported(4)>>
                   = <<c_date, c_source, c_value, c_source>>

\* the scorecard of the columns source, target, date, value
C18_Witness ==
    /\ calls = 1
    /\ call.df.v.columns = <<c_source, c_target, c_date, c_value>>
    /\ \A i \in DOMAIN dimensions : ui[2 * i - 1].kind = "st.success"
    /\ Reported(4) = c_source

(***************************************************************************)
(* Properties of two concurrent fetches                                    *)
(***************************************************************************)
BothDone == call # NoCall /\ \A th \in Threads : call.pc[th] = "done"

\* the entries the store holds for the arguments of the calls
Held ==
    {e \in cache :
       e.fn = call.fn /\ e.dataset_id = call.dataset_id /\ e.api_key = call.api_key}

\* both calls returned a (df, raw_json, error) tuple, the store holds one entry
\* for their arguments, and the entry is what one of the calls returned
Settled ==
    /\ \A th \in Threads :
         /\ result[th].exc = ""
         /\ IsNone(result[th].table) => ~IsNone(result[th].error)
    /\ Cardinality(Held) = 1
    /\ \E e \in Held : \E th \in Threads : e.value = Tuple(result[th])

AdapterOf(store, t, in) ==
    CASE in.source_type = "fred" -> get_fred_data(in.dataset_id, in.api_key, in.resp)
      [] in.source_type = "bls" -> get_bls_data(in.dataset_id, in.api_key, in.resp)
      [] in.source_type = "coingecko" -> get_crypto_data(in.dataset_id, in.api_key, in.resp)
      [] in.source_type = "imf" -> get_imf_data(store, t, in.dataset_id, in.api_key, in.resp)
      [] in.source_type = "oecd" -> get_oecd_data(in.dataset_id, in.api_key, in.resp)
      [] in.source_type = "ecb" -> get_ecb_data(store, t, in.dataset_id, in.api_key, in.resp)
      [] in.source_type = "generic" -> get_generic_json(in.dataset_id, in.api_key, in.resp)
      [] in.source_type = "census" -> get_census_data(in.dataset_id, in.api_key, in.resp)

KnownTypes == {"fred", "bls", "coingecko", "imf", "oecd", "ecb", "generic", "census"}

\* C21: fetch_data dispatches on the source type: for a known type the result is
\* that of the type's adapter called with the identifier and the credential; for
\* an unknown type it is that of the generic URL fetch exactly when the
\* identifier contains "http", and otherwise an error with no table and no raw
\* payload, returned without a request.
C21_Dispatch ==
    [][(calls' = 1 /\ ui' = <<>>)
        => IF call'.source_type \in KnownTypes
           THEN result' = AdapterOf(cache, now, call')
           ELSE IF Contains(call'.dataset_id, http)
           THEN /\ result' = get_generic_json(call'.dataset_id, None, call'.resp)
                /\ result'.reqs = <<Request("GET", call'.dataset_id)>>
           ELSE /\ IsNone(result'.table)
                /\ IsNone(result'.raw)
                /\ ~IsNone(result'.error)
                /\ result'.reqs = <<>>]_vars

\* a call of an unknown source type with a URL went to the generic fetch, which
\* returned the payload
C21_Witness ==
    /\ ViaFetchData
    /\ call.source_type \notin KnownTypes
    /\ Contains(call.dataset_id, http)
    /\ result.reqs = <<Request("GET", call.dataset_id)>>
    /\ ~IsNone(result.raw)

\* C22: every (table, raw, error) result of fetch_data, and so of every adapter
\* it calls, is well-formed: a table comes with no error, and a result with
\* neither table nor raw payload carries an error; no result is all null.
C22_WellFormed ==
    ViaFetchData =>
        /\ result.exc = ""
        /\ ~IsNone(result.table) => IsNone(result.error)
        /\ (IsNone(result.table) /\ IsNone(result.raw)) => ~IsNone(result.error)

====
